---- MODULE Spec2Model ----
(***************************************************************************)
(* A model of the auto-tuning particle traversal engine of AutoPas.        *)
(*                                                                         *)
(* The module holds several state machines over one set of variables, one  *)
(* per component; each has its own specification, and leaves the variables *)
(* of the other components at their idle values:                           *)
(*                                                                         *)
(*   SpecC08   the c08 base step and its 8-colour schedule                 *)
(***************************************************************************)
EXTENDS Integers, Sequences, FiniteSets, Bags, TLC

VARIABLES
    \* ---- c08 traversal ----
    dims,        \* _cellsPerDimension: <<nx, ny, nz>>
    colour,      \* the colour the traversal is processing; NumColours(..) when done
    progress,    \* base index -> 0 (not started), j in 1..14 (executing pair j), 15 (returned)
    cellCalls,   \* bag of the cell indices processCell was called on
    pairCalls,   \* bag of the unordered cell pairs processCellPair was called on
    \* ---- FullSearchMPI, one instance per rank ----
    worldSize,          \* AutoPas_MPI_Comm_size
    allowed,            \* the allowed options the constructors were given
    ctorRange,          \* rank -> <<start, startNext>> computed by its constructor
    searchSpace,        \* rank -> _searchSpace
    tuningConfig,       \* rank -> _tuningConfig, a position in the ordered _searchSpace
    optimalConfig,      \* rank -> _optimalConfig (NoConfig: Configuration())
    traversalTimes,     \* rank -> _traversalTimes, a map from configurations to times
    allConfigsTested,   \* rank -> _allConfigsTested
    tuningRequest,      \* rank -> whether _tuningRequest is set (not nullptr)
    mpiPc,              \* rank -> where the rank is: "new", "tuning", "allreduce", "bcast", "done"
    sampled,            \* rank -> the caller has recorded evidence for the current configuration
    optimum,            \* rank -> the local optimum <<configuration, time>> of selectOptimalConfiguration
    allreduceIn,        \* rank -> the <<val, rank>> the rank gave to Allreduce (<<>>: none yet)
    bcastBuf,           \* the configuration the winning rank broadcast (NoConfig: none yet)
    lastEvidence,       \* rank -> configuration -> the time addEvidence recorded last in this phase
    phaseMin,           \* rank -> the smallest time addEvidence recorded in this phase (0: none)
    tuningPhase,        \* rank -> the parity of the tuning phase the rank is in
    phaseLog,           \* rank -> what the rank did in this phase: the positions its iterator
                        \*         has stood at, and the number of its calls of Ibarrier
    \* ---- DirectSum ----
    ds,                 \* the container: its two cells, and what its last call did
    \* ---- ParticleView ----
    pv,                 \* the view: its particles, _capacity, and what its last call did
    \* ---- PredictiveTuning::linePrediction on its own ----
    lp,                 \* the two samples, the phase start, and the prediction made from them
    \* ---- PredictiveTuning ----
    pt,                 \* the strategy's members, its caller's position, and the record of the phase
    \* ---- VerletClusterLists: the cluster-thread partition ----
    ct,                 \* the towers' clusters, _clusterThreadPartition, and what the last call did
    \* ---- ClusterTower ----
    tw,                 \* the tower's _particles, _clusters, _numDummyParticles, and what the last call did
    \* ---- ReferenceLinkedCells: concurrent insertion ----
    rl,                 \* the central vector, the cells' reference lists, and where each inserting thread is
    \* ---- BalancedSlicedTraversal ----
    sl,                 \* the slabs, the wall locks, and where each thread is in its slab
    \* ---- OTC18Traversal ----
    ot,                 \* the leaves of the octree, and where each thread of the parallel loop is
    \* ---- VarVerletLists ----
    vl,                 \* cutoff and skin, the particles' positions now and at the last build, and the neighbor lists
    \* ---- ReferenceLinkedCells: calls of one thread ----
    rc,                 \* the central vector, the cells' reference lists, and what the last call found and did
    \* ---- iteratePairwise of the containers ----
    ip,                 \* the traversal calls of the last iteratePairwise, and how often each container was traversed
    \* ---- ParticleView and ClusterTower: concurrent addParticle ----
    pa,                 \* the store, its lock, and where each adding thread is
    \* ---- GaussianProcess: sampling the acquisition function ----
    gp,                 \* the samples of the last call, the acquisition function, and the index returned
    \* ---- removeN3Option ----
    n3,                 \* a tuning strategy whose search space loses a Newton-3 option
    \* ---- VerletClusterLists: deferred insertion ----
    vc,                 \* the container: its towers and the particles waiting to be added
    \* ---- DomainTools (md-flexible) ----
    dt                  \* the call of DomainTools in progress

c08vars == <<dims, colour, progress, cellCalls, pairCalls>>

mpivars == <<worldSize, allowed, ctorRange, searchSpace, tuningConfig, optimalConfig,
             traversalTimes, allConfigsTested, tuningRequest, mpiPc, sampled, optimum,
             allreduceIn, bcastBuf, lastEvidence, phaseMin, tuningPhase, phaseLog>>

vars == <<c08vars, mpivars, ds, pv, lp, pt, ct, tw, rl, sl, ot, vl, rc, ip, pa, gp, n3, vc, dt>>

\* What a step of one state machine leaves alone: the other machines' variables.
c08rest == <<mpivars, ds, pv, lp, pt, ct, tw, rl, sl, ot, vl, rc, ip, pa, gp, n3, vc, dt>>
mpirest == <<c08vars, ds, pv, lp, pt, ct, tw, rl, sl, ot, vl, rc, ip, pa, gp, n3, vc, dt>>
dsrest == <<c08vars, mpivars, pv, lp, pt, ct, tw, rl, sl, ot, vl, rc, ip, pa, gp, n3, vc, dt>>
pvrest == <<c08vars, mpivars, ds, lp, pt, ct, tw, rl, sl, ot, vl, rc, ip, pa, gp, n3, vc, dt>>
lprest == <<c08vars, mpivars, ds, pv, pt, ct, tw, rl, sl, ot, vl, rc, ip, pa, gp, n3, vc, dt>>
ptrest == <<c08vars, mpivars, ds, pv, lp, ct, tw, rl, sl, ot, vl, rc, ip, pa, gp, n3, vc, dt>>
ctrest == <<c08vars, mpivars, ds, pv, lp, pt, tw, rl, sl, ot, vl, rc, ip, pa, gp, n3, vc, dt>>
twrest == <<c08vars, mpivars, ds, pv, lp, pt, ct, rl, sl, ot, vl, rc, ip, pa, gp, n3, vc, dt>>
rlrest == <<c08vars, mpivars, ds, pv, lp, pt, ct, tw, sl, ot, vl, rc, ip, pa, gp, n3, vc, dt>>
slrest == <<c08vars, mpivars, ds, pv, lp, pt, ct, tw, rl, ot, vl, rc, ip, pa, gp, n3, vc, dt>>
otrest == <<c08vars, mpivars, ds, pv, lp, pt, ct, tw, rl, sl, vl, rc, ip, pa, gp, n3, vc, dt>>
vlrest == <<c08vars, mpivars, ds, pv, lp, pt, ct, tw, rl, sl, ot, rc, ip, pa, gp, n3, vc, dt>>
rcrest == <<c08vars, mpivars, ds, pv, lp, pt, ct, tw, rl, sl, ot, vl, ip, pa, gp, n3, vc, dt>>
iprest == <<c08vars, mpivars, ds, pv, lp, pt, ct, tw, rl, sl, ot, vl, rc, pa, gp, n3, vc, dt>>
parest == <<c08vars, mpivars, ds, pv, lp, pt, ct, tw, rl, sl, ot, vl, rc, ip, gp, n3, vc, dt>>
gprest == <<c08vars, mpivars, ds, pv, lp, pt, ct, tw, rl, sl, ot, vl, rc, ip, pa, n3, vc, dt>>
n3rest == <<c08vars, mpivars, ds, pv, lp, pt, ct, tw, rl, sl, ot, vl, rc, ip, pa, gp, vc, dt>>
vcrest == <<c08vars, mpivars, ds, pv, lp, pt, ct, tw, rl, sl, ot, vl, rc, ip, pa, gp, n3, dt>>
dtrest == <<c08vars, mpivars, ds, pv, lp, pt, ct, tw, rl, sl, ot, vl, rc, ip, pa, gp, n3, vc>>

\* The other machines' variables while one machine runs.
IdleC08 ==
    /\ dims = <<0, 0, 0>>
    /\ colour = 0
    /\ progress = << >>
    /\ cellCalls = << >>
    /\ pairCalls = << >>

IdleDS == ds = << >>

IdlePV == pv = << >>

IdleLP == lp = << >>

IdlePT == pt = << >>

IdleCT == ct = << >>

IdleTW == tw = << >>

IdleRL == rl = << >>

IdleSL == sl = << >>

IdleOT == ot = << >>

IdleVL == vl = << >>

IdleRC == rc = << >>

IdleIP == ip = << >>

IdlePA == pa = << >>

IdleGP == gp = << >>

IdleN3 == n3 = << >>

IdleVC == vc = << >>

IdleDT == dt = << >>

IdleMPI ==
    /\ worldSize = 0
    /\ allowed = << >>
    /\ ctorRange = << >>
    /\ searchSpace = << >>
    /\ tuningConfig = << >>
    /\ optimalConfig = << >>
    /\ traversalTimes = << >>
    /\ allConfigsTested = << >>
    /\ tuningRequest = << >>
    /\ mpiPc = << >>
    /\ sampled = << >>
    /\ optimum = << >>
    /\ allreduceIn = << >>
    /\ bcastBuf = << >>
    /\ lastEvidence = << >>
    /\ phaseMin = << >>
    /\ tuningPhase = << >>
    /\ phaseLog = << >>

(***************************************************************************)
(* Bounds of the model.                                                    *)
(***************************************************************************)
MaxDimX == 4
MaxDimY == 2
MaxDimZ == 2
MaxRanks == 2     \* ranks of the communicator
MaxTime == 2      \* measured times are 1 .. MaxTime
MaxCoord == 2     \* coordinates are 0 .. MaxCoord; the box is [0, MaxCoord) on every axis
MaxParticles == 2 \* particles handed to a container
MaxAdded == 3     \* particles handed to a DirectSum container
MaxIter == 4      \* iterations of the samples given to linePrediction are 0 .. MaxIter
MaxConfigs == 2   \* configurations in the search space of PredictiveTuning
MaxPhases == 4    \* tuning phases a PredictiveTuning object goes through
maxTuningIterationsWithoutTest == 1 \* the constructor argument of that name
MaxTowers == 2    \* towers of a VerletClusterLists container
MaxClusters == 2  \* clusters of one tower
MaxThreads == 2   \* autopas_get_max_threads() is 1 .. MaxThreads

(***************************************************************************)
(* c08 base step (C08BasedTraversal.h) and colouring (C08BasedKokkos-      *)
(* Traversal::c08Traversal).                                               *)
(***************************************************************************)

\* ThreeDimensionalMapping::threeToOneD, with zero-based coordinates.
threeToOneD(x, y, z, d) == x + d[1] * (y + d[2] * z)

\* The inverse mapping, ThreeDimensionalMapping::oneToThreeD.
oneToThreeD(i, d) == << i % d[1], (i \div d[1]) % d[2], i \div (d[1] * d[2]) >>

\* The number of cells a traversal may use in each dimension beyond the base cell.
overlap == <<1, 1, 1>>

\* A slip in computeOffsets: the pair (x, y) entered as (o, xy) a second time.
computeOffsetsDuplicatePair(d) ==
    LET o   == threeToOneD(0, 0, 0, d)
        x   == threeToOneD(1, 0, 0, d)
        y   == threeToOneD(0, 1, 0, d)
        z   == threeToOneD(0, 0, 1, d)
        xy  == threeToOneD(1, 1, 0, d)
        yz  == threeToOneD(0, 1, 1, d)
        xz  == threeToOneD(1, 0, 1, d)
        xyz == threeToOneD(1, 1, 1, d)
    IN  [ cellPairOffsets |->
            << <<o, o>>, <<o, y>>, <<y, z>>, <<o, z>>, <<o, yz>>,
               <<x, yz>>, <<o, xy>>, <<x, z>>, <<o, x>>, <<o, xy>>,
               <<xy, z>>, <<y, xz>>, <<o, xz>>, <<o, xyz>> >>,
          cellOffsets |-> << o, y, z, yz, x, xy, xz, xyz >> ]

\* C08BasedTraversal::computeOffsets: _cellPairOffsets and _cellOffsets.
computeOffsets(d) ==
    LET o   == threeToOneD(0, 0, 0, d)
        x   == threeToOneD(1, 0, 0, d)
        y   == threeToOneD(0, 1, 0, d)
        z   == threeToOneD(0, 0, 1, d)
        xy  == threeToOneD(1, 1, 0, d)
        yz  == threeToOneD(0, 1, 1, d)
        xz  == threeToOneD(1, 0, 1, d)
        xyz == threeToOneD(1, 1, 1, d)
    IN  [ cellPairOffsets |->
            << <<o, o>>, <<o, y>>, <<y, z>>, <<o, z>>, <<o, yz>>,
               <<x, yz>>, <<x, y>>, <<x, z>>, <<o, x>>, <<o, xy>>,
               <<xy, z>>, <<y, xz>>, <<o, xz>>, <<o, xyz>> >>,
          cellOffsets |-> << o, y, z, yz, x, xy, xz, xyz >> ]

\* const int num_pairs = _cellPairOffsets.size()
num_pairs(d) == Len(computeOffsets(d).cellPairOffsets)

\* The cells of the grid, by their one-dimensional index.
Cells(d) == 0 .. (d[1] * d[2] * d[3] - 1)

\* A c08Traversal whose stride is the overlap itself (the "+ 1" forgotten).
c08StrideNoIncrement == overlap

\* c08Traversal: stride = ArrayMath::addScalar(_overlap, 1ul)
c08Stride == [k \in 1..3 |-> overlap[k] + 1]

\* c08Traversal: end = ArrayMath::sub(_cellsPerDimension, _overlap)
c08End(d) == [k \in 1..3 |-> d[k] - overlap[k]]

\* cTraversal: the number of colours is the product of the strides.
NumColours == c08Stride[1] * c08Stride[2] * c08Stride[3]

\* cTraversal: the base cells of colour col: the loop from the colour's start
\* cell to end in steps of stride, in every dimension.
ColourBases(col, d) ==
    LET start == oneToThreeD(col, c08Stride)
    IN  { threeToOneD(x, y, z, d) :
            <<x, y, z>> \in
              { c \in (0 .. (c08End(d)[1] - 1)) \X (0 .. (c08End(d)[2] - 1))
                        \X (0 .. (c08End(d)[3] - 1)) :
                  \A k \in 1..3 :
                     /\ c[k] >= start[k]
                     /\ (c[k] - start[k]) % c08Stride[k] = 0 } }

\* All base cells: the cells the traversal calls processBaseCell on.
AllBases(d) == UNION { ColourBases(col, d) : col \in 0 .. (NumColours - 1) }

\* The two cells of pair j of the base step at baseIndex.
PairCells(baseIndex, j, d) ==
    LET current_pair == computeOffsets(d).cellPairOffsets[j]
    IN  { baseIndex + current_pair[1], baseIndex + current_pair[2] }

\* One iteration of the loop of processBaseCell: the call made for pair j.
LogPair(baseIndex, j) ==
    LET cs == PairCells(baseIndex, j, dims)
    IN  IF Cardinality(cs) = 1
          THEN /\ cellCalls' = cellCalls (+) SetToBag(cs)
               /\ pairCalls' = pairCalls
          ELSE /\ pairCalls' = pairCalls (+) SetToBag({cs})
               /\ cellCalls' = cellCalls

InitC08 ==
    /\ dims \in (2 .. MaxDimX) \X (2 .. MaxDimY) \X (2 .. MaxDimZ)
    /\ colour = 0
    /\ progress = [b \in AllBases(dims) |-> 0]
    /\ cellCalls = EmptyBag
    /\ pairCalls = EmptyBag
    /\ IdleMPI
    /\ IdleDS
    /\ IdlePV
    /\ IdleLP
    /\ IdlePT
    /\ IdleCT
    /\ IdleTW
    /\ IdleRL
    /\ IdleSL
    /\ IdleOT
    /\ IdleVL
    /\ IdleRC
    /\ IdleIP
    /\ IdlePA
    /\ IdleGP
    /\ IdleN3
    /\ IdleVC
    /\ IdleDT

\* A thread of the colour's parallel loop enters processBaseCell(baseIndex) and
\* starts on the first pair.
StartBaseCell(baseIndex) ==
    /\ colour < NumColours
    /\ baseIndex \in ColourBases(colour, dims)
    /\ progress[baseIndex] = 0
    /\ PairCells(baseIndex, 1, dims) \subseteq Cells(dims)   \* _cells->at()
    /\ progress' = [progress EXCEPT ![baseIndex] = 1]
    /\ LogPair(baseIndex, 1)
    /\ UNCHANGED <<dims, colour, c08rest>>

\* The thread finishes pair j and goes on to pair j + 1.
NextPair(baseIndex) ==
    /\ colour < NumColours
    /\ baseIndex \in ColourBases(colour, dims)
    /\ progress[baseIndex] \in 1 .. (num_pairs(dims) - 1)
    /\ PairCells(baseIndex, progress[baseIndex] + 1, dims) \subseteq Cells(dims)
    /\ progress' = [progress EXCEPT ![baseIndex] = @ + 1]
    /\ LogPair(baseIndex, progress[baseIndex] + 1)
    /\ UNCHANGED <<dims, colour, c08rest>>

\* The thread finishes the last pair: processBaseCell returns.
FinishBaseCell(baseIndex) ==
    /\ colour < NumColours
    /\ baseIndex \in ColourBases(colour, dims)
    /\ progress[baseIndex] = num_pairs(dims)
    /\ progress' = [progress EXCEPT ![baseIndex] = num_pairs(dims) + 1]
    /\ UNCHANGED <<dims, colour, cellCalls, pairCalls, c08rest>>

\* The barrier at the end of a colour's parallel loop.
NextColour ==
    /\ colour < NumColours
    /\ \A b \in ColourBases(colour, dims) : progress[b] = num_pairs(dims) + 1
    /\ colour' = colour + 1
    /\ UNCHANGED <<dims, progress, cellCalls, pairCalls, c08rest>>

NextC08 ==
    \/ \E b \in AllBases(dims) : StartBaseCell(b)
    \/ \E b \in AllBases(dims) : NextPair(b)
    \/ \E b \in AllBases(dims) : FinishBaseCell(b)
    \/ NextColour

SpecC08 == InitC08 /\ [][NextC08]_vars

(***************************************************************************)
(* Claims about the c08 base step.                                         *)
(***************************************************************************)

\* The traversal has processed every colour.
TraversalDone == colour = NumColours

\* A base index in the sense of the claim: 0 <= x < nx-1, 0 <= y < ny-1, 0 <= z < nz-1.
IsBaseIndex(c, d) == \A k \in 1..3 : oneToThreeD(c, d)[k] < d[k] - 1

\* Two distinct cells whose coordinates differ by at most 1 in each dimension.
AdjacentCells(a, b, d) ==
    /\ a # b
    /\ \A k \in 1..3 :
          LET diff == oneToThreeD(a, d)[k] - oneToThreeD(b, d)[k]
          IN  diff \in {-1, 0, 1}

Running(b) == progress[b] \in 1 .. num_pairs(dims)

\* The cells the base step at b has touched so far.
TouchedSoFar(b) ==
    UNION { PairCells(b, j, dims) :
              j \in { i \in 1 .. num_pairs(dims) : i <= progress[b] } }

directSum == 0
linkedCells == 1
verletLists == 2

\* compatibleTraversals::allCompatibleTraversals: the traversals (by the value
\* of their TraversalOption) a container can be traversed with.
allCompatibleTraversals(containerOption) ==
    CASE containerOption = directSum   -> {0}
      [] containerOption = linkedCells -> {1, 2, 3}
      [] containerOption = verletLists -> {4}
      [] OTHER                         -> {}

\* Configuration(): the invalid configuration, with cellSizeFactor -1.
NoConfig ==
    [container |-> -1, cellSizeFactor |-> -1, traversal |-> -1, dataLayout |-> -1, newton3 |-> -1]

\* Configuration::operator<, the order of a std::set<Configuration>.
ConfigLess(a, b) ==
    LET ka == <<a.container, a.cellSizeFactor, a.traversal, a.dataLayout, a.newton3>>
        kb == <<b.container, b.cellSizeFactor, b.traversal, b.dataLayout, b.newton3>>
    IN  \E k \in 1..5 : ka[k] < kb[k] /\ \A j \in 1 .. (k - 1) : ka[j] = kb[j]

\* The elements of a std::set<Configuration> in iteration order.
RECURSIVE OrderedSeq(_)
OrderedSeq(S) ==
    IF S = {} THEN << >>
    ELSE LET m == CHOOSE x \in S : \A y \in S : x = y \/ ConfigLess(x, y)
         IN  <<m>> \o OrderedSeq(S \ {m})

\* std::set_intersection(allowedTraversalOptions, allContainerTraversals)
allowedAndApplicable(opts, containerOption) ==
    opts.traversals \cap allCompatibleTraversals(containerOption)

\* The configurations the five nested loops of populateSearchSpace visit, in
\* the order they visit them: every loop runs over a std::set in ascending
\* order, the container loop outermost, the Newton-3 loop innermost.
LoopOrder(opts) ==
    OrderedSeq({ [container |-> c, cellSizeFactor |-> f, traversal |-> t,
                  dataLayout |-> l, newton3 |-> n] :
                    <<c, f, t, l, n>> \in
                       { q \in opts.containers \X opts.cellSizeFactors \X opts.traversals
                                 \X opts.dataLayouts \X opts.newton3 :
                            q[3] \in allowedAndApplicable(opts, q[1]) } })

RECURSIVE SumOver(_, _)
SumOver(S, f) ==
    IF S = {} THEN 0
    ELSE LET x == CHOOSE y \in S : TRUE IN f[x] + SumOver(S \ {x}, f)

\* The constructor's count of the allowed and applicable configurations.
totalNumConfigs(opts) ==
    SumOver(opts.containers,
            [c \in opts.containers |->
                Cardinality(opts.cellSizeFactors) * Cardinality(allowedAndApplicable(opts, c))
                  * Cardinality(opts.dataLayouts) * Cardinality(opts.newton3)])

\* A slip in the division: the lower ranks' startNext gets worldRank, not worldRank + 1.
RankRangeShortBlock(worldRank, W, total) ==
    LET blockSize == total \div W
        remainder == total % W
    IN  IF worldRank < remainder
          THEN << blockSize * worldRank + worldRank, blockSize * (worldRank + 1) + worldRank >>
          ELSE << blockSize * worldRank + remainder, blockSize * (worldRank + 1) + remainder >>

\* The constructor's division of the search space: <<start, startNext>> of a rank.
RankRange(worldRank, W, total) ==
    LET blockSize == total \div W
        remainder == total % W
    IN  IF worldRank < remainder
          THEN << blockSize * worldRank + worldRank, blockSize * (worldRank + 1) + worldRank + 1 >>
          ELSE << blockSize * worldRank + remainder, blockSize * (worldRank + 1) + remainder >>

\* The loop body of populateSearchSpace, from the k-th configuration of the
\* loops on, with counter i and the search space built so far.
RECURSIVE populateLoop(_, _, _, _, _, _)
populateLoop(order, k, i, start, startNext, space) ==
    IF k > Len(order) THEN space
    ELSE IF i < start THEN populateLoop(order, k + 1, i + 1, start, startNext, space)
    ELSE IF i = startNext THEN space
    ELSE populateLoop(order, k + 1, i + 1, start, startNext, space \cup {order[k]})

\* FullSearchMPI::populateSearchSpace
populateSearchSpace(opts, start, startNext) ==
    populateLoop(LoopOrder(opts), 1, 0, start, startNext, {})

\* The search space the constructor leaves: the rank's block, or the whole
\* space if the block is empty.
ConstructedSearchSpace(opts, worldRank, W) ==
    LET range == RankRange(worldRank, W, totalNumConfigs(opts))
        own   == populateSearchSpace(opts, range[1], range[2])
    IN  IF own = {} THEN populateSearchSpace(opts, 0, totalNumConfigs(opts)) ELSE own

Ranks == 0 .. (worldSize - 1)

\* The option sets the constructors are given.
OptionSets ==
    [ containers      : (SUBSET {directSum, linkedCells, verletLists}) \ {{}},
      cellSizeFactors : {{1}, {1, 2}},
      traversals      : {{0, 1, 2, 4}, {1, 2}, {2}},
      dataLayouts     : {{0}, {0, 1}},
      newton3         : {{0}, {0, 1}} ]

\* The state before any rank has constructed its strategy.
InitPartition ==
    /\ worldSize \in 1 .. (MaxRanks + 1)
    /\ allowed \in OptionSets
    /\ ctorRange = [r \in Ranks |-> << >>]
    /\ searchSpace = [r \in Ranks |-> {}]
    /\ tuningConfig = [r \in Ranks |-> 0]
    /\ optimalConfig = [r \in Ranks |-> NoConfig]
    /\ traversalTimes = [r \in Ranks |-> << >>]
    /\ allConfigsTested = [r \in Ranks |-> FALSE]
    /\ tuningRequest = [r \in Ranks |-> FALSE]
    /\ mpiPc = [r \in Ranks |-> "new"]
    /\ sampled = [r \in Ranks |-> FALSE]
    /\ optimum = [r \in Ranks |-> << >>]
    /\ allreduceIn = [r \in Ranks |-> << >>]
    /\ bcastBuf = NoConfig
    /\ lastEvidence = [r \in Ranks |-> << >>]
    /\ phaseMin = [r \in Ranks |-> 0]
    /\ tuningPhase = [r \in Ranks |-> 0]
    /\ phaseLog = [r \in Ranks |-> [visited |-> {}, requests |-> 0]]
    /\ IdleC08
    /\ IdleDS
    /\ IdlePV
    /\ IdleLP
    /\ IdlePT
    /\ IdleCT
    /\ IdleTW
    /\ IdleRL
    /\ IdleSL
    /\ IdleOT
    /\ IdleVL
    /\ IdleRC
    /\ IdleIP
    /\ IdlePA
    /\ IdleGP
    /\ IdleN3
    /\ IdleVC
    /\ IdleDT

\* FullSearchMPI::FullSearchMPI on rank worldRank.
Construct(worldRank) ==
    /\ mpiPc[worldRank] = "new"
    /\ ctorRange' = [ctorRange EXCEPT
                        ![worldRank] = RankRange(worldRank, worldSize, totalNumConfigs(allowed))]
    /\ searchSpace' = [searchSpace EXCEPT
                          ![worldRank] = ConstructedSearchSpace(allowed, worldRank, worldSize)]
    /\ IF searchSpace'[worldRank] = {}
         THEN \* "No valid configuration could be generated"
              /\ mpiPc' = [mpiPc EXCEPT ![worldRank] = "error"]
              /\ tuningConfig' = tuningConfig
         ELSE /\ mpiPc' = [mpiPc EXCEPT ![worldRank] = "tuning"]
              /\ tuningConfig' = [tuningConfig EXCEPT ![worldRank] = 1]
    /\ UNCHANGED <<worldSize, allowed, optimalConfig, traversalTimes, allConfigsTested,
                   tuningRequest, sampled, optimum, allreduceIn, bcastBuf, lastEvidence,
                   phaseMin, tuningPhase, phaseLog, mpirest>>

NextPartition == \E r \in Ranks : Construct(r)

SpecPartition == InitPartition /\ [][NextPartition]_vars

(***************************************************************************)
(* The tuning phase of FullSearchMPI.  The caller (AutoTuner) runs one     *)
(* iteration at a time: it either measures the current configuration and   *)
(* calls addEvidence and then tune(false), or finds the configuration not  *)
(* applicable and calls tune(true).                                        *)
(***************************************************************************)

\* The option sets of the tuning runs: four configurations, two, and three.
TuningOptionSets ==
    { [containers |-> {linkedCells}, cellSizeFactors |-> {1}, traversals |-> {1, 2},
       dataLayouts |-> {0}, newton3 |-> {0, 1}],
      [containers |-> {linkedCells}, cellSizeFactors |-> {1}, traversals |-> {1, 2},
       dataLayouts |-> {0}, newton3 |-> {0}],
      [containers |-> {directSum, linkedCells}, cellSizeFactors |-> {1}, traversals |-> {0, 1, 2},
       dataLayouts |-> {0}, newton3 |-> {0}] }

Times == 1 .. MaxTime

SetMin(S) == CHOOSE x \in S : \A y \in S : x <= y

\* *_tuningConfig
currentTuningConfig(r) == OrderedSeq(searchSpace[r])[tuningConfig[r]]

\* FullSearchMPI::getCurrentConfiguration
getCurrentConfiguration(r) ==
    IF optimalConfig[r].cellSizeFactor = -1 THEN currentTuningConfig(r) ELSE optimalConfig[r]

\* Every rank has constructed its strategy; no rank has measured anything.
InitMPI ==
    /\ worldSize \in 1 .. MaxRanks
    /\ allowed \in TuningOptionSets
    /\ ctorRange = [r \in Ranks |-> RankRange(r, worldSize, totalNumConfigs(allowed))]
    /\ searchSpace = [r \in Ranks |-> ConstructedSearchSpace(allowed, r, worldSize)]
    /\ tuningConfig = [r \in Ranks |-> 1]
    /\ optimalConfig = [r \in Ranks |-> NoConfig]
    /\ traversalTimes = [r \in Ranks |-> << >>]
    /\ allConfigsTested = [r \in Ranks |-> FALSE]
    /\ tuningRequest = [r \in Ranks |-> FALSE]
    /\ mpiPc = [r \in Ranks |-> "tuning"]
    /\ sampled = [r \in Ranks |-> FALSE]
    /\ optimum = [r \in Ranks |-> << >>]
    /\ allreduceIn = [r \in Ranks |-> << >>]
    /\ bcastBuf = NoConfig
    /\ lastEvidence = [r \in Ranks |-> << >>]
    /\ phaseMin = [r \in Ranks |-> 0]
    /\ tuningPhase = [r \in Ranks |-> 0]
    /\ phaseLog = [r \in Ranks |-> [visited |-> {1}, requests |-> 0]]
    /\ IdleC08
    /\ IdleDS
    /\ IdlePV
    /\ IdleLP
    /\ IdlePT
    /\ IdleCT
    /\ IdleTW
    /\ IdleRL
    /\ IdleSL
    /\ IdleOT
    /\ IdleVL
    /\ IdleRC
    /\ IdleIP
    /\ IdlePA
    /\ IdleGP
    /\ IdleN3
    /\ IdleVC
    /\ IdleDT

\* FullSearchMPI::addEvidence
AddEvidence(r, time) ==
    /\ mpiPc[r] = "tuning"
    /\ ~sampled[r]
    /\ traversalTimes' = [traversalTimes EXCEPT ![r] = (currentTuningConfig(r) :> time) @@ @]
    /\ sampled' = [sampled EXCEPT ![r] = TRUE]
    /\ lastEvidence' = [lastEvidence EXCEPT ![r] = (currentTuningConfig(r) :> time) @@ @]
    /\ phaseMin' = [phaseMin EXCEPT ![r] = IF @ = 0 \/ time < @ THEN time ELSE @]
    /\ UNCHANGED <<worldSize, allowed, ctorRange, searchSpace, tuningConfig, optimalConfig,
                   allConfigsTested, tuningRequest, mpiPc, optimum, allreduceIn, bcastBuf,
                   tuningPhase, phaseLog, mpirest>>

\* The ranks that have entered the Ibarrier of the phase rank r is in.
InBarrier(r) == { q \in Ranks : tuningPhase[q] = tuningPhase[r] /\ tuningRequest[q] }

\* A test that may report completion before every rank has entered.
MPI_TestAnyTime(r) == {TRUE, FALSE}

\* AutoPas_MPI_Test on the barrier request: the flags it can give.  The
\* barrier cannot complete before every rank has entered it; once every rank
\* has, the request completes at a moment the MPI library chooses.
MPI_Test(r) == IF InBarrier(r) = Ranks THEN {TRUE, FALSE} ELSE {FALSE}

\* The reduction keeps the largest value.
MAXLOC(ins) ==
    LET m == CHOOSE v \in { ins[q][1] : q \in DOMAIN ins } :
                 \A q \in DOMAIN ins : ins[q][1] <= v
    IN  << m, SetMin({ ins[q][2] : q \in { p \in DOMAIN ins : ins[p][1] = m } }) >>

\* AUTOPAS_MPI_MINLOC over the ranks' <<val, rank>>: the smallest value and
\* the lowest rank that gave it.
MINLOC(ins) ==
    LET m == SetMin({ ins[q][1] : q \in DOMAIN ins })
    IN  << m, SetMin({ ins[q][2] : q \in { p \in DOMAIN ins : ins[p][1] = m } }) >>

\* Every rank takes itself for the root.
IsBcastRootAlways(out, worldRank) == TRUE

\* out->rank == worldRank
IsBcastRoot(out, worldRank) == out[2] = worldRank

\* The entries std::min_element can return: a smallest time of the map (the
\* order of equal entries in the unordered_map is not specified).
MinElements(times) ==
    { c \in DOMAIN times : \A d \in DOMAIN times : times[c] <= times[d] }

\* FullSearchMPI::tune
Tune(r, currentInvalid) ==
    /\ mpiPc[r] = "tuning"
    /\ sampled[r] = ~currentInvalid
    /\ sampled' = [sampled EXCEPT ![r] = FALSE]
    /\ LET atEnd  == tuningConfig[r] + 1 > Cardinality(searchSpace[r])
           tested == allConfigsTested[r] \/ atEnd
           ibarrier == ~currentInvalid /\ ~tuningRequest[r] /\ tested
       IN  /\ tuningConfig' = [tuningConfig EXCEPT ![r] = IF atEnd THEN 1 ELSE @ + 1]
           /\ allConfigsTested' = [allConfigsTested EXCEPT ![r] = tested]
           /\ phaseLog' = [phaseLog EXCEPT
                              ![r].visited = @ \cup {tuningConfig'[r]},
                              ![r].requests = IF ibarrier THEN @ + 1 ELSE @]
           /\ IF currentInvalid
                THEN UNCHANGED <<tuningRequest, mpiPc, optimum, allreduceIn>>
                ELSE IF tuningRequest[r]
                  THEN \E completed \in MPI_Test(r) :
                         IF ~completed
                           THEN UNCHANGED <<tuningRequest, mpiPc, optimum, allreduceIn>>
                           ELSE \* selectOptimalConfiguration, up to the Allreduce
                                IF traversalTimes[r] = << >>
                                  THEN /\ mpiPc' = [mpiPc EXCEPT ![r] = "error"]
                                       /\ UNCHANGED <<tuningRequest, optimum, allreduceIn>>
                                  ELSE \E c \in MinElements(traversalTimes[r]) :
                                         /\ optimum' = [optimum EXCEPT
                                                          ![r] = <<c, traversalTimes[r][c]>>]
                                         /\ allreduceIn' = [allreduceIn EXCEPT
                                                          ![r] = <<traversalTimes[r][c], r>>]
                                         /\ mpiPc' = [mpiPc EXCEPT ![r] = "allreduce"]
                                         /\ UNCHANGED tuningRequest
                  ELSE /\ tuningRequest' = [tuningRequest EXCEPT ![r] = tested]
                       /\ UNCHANGED <<mpiPc, optimum, allreduceIn>>
    /\ UNCHANGED <<worldSize, allowed, ctorRange, searchSpace, optimalConfig, traversalTimes,
                   bcastBuf, lastEvidence, phaseMin, tuningPhase, mpirest>>

\* selectOptimalConfiguration from the return of the Allreduce: the rank
\* MINLOC names fills in its optimum and is the root of the Bcast.
AllreduceReturn(r) ==
    /\ mpiPc[r] = "allreduce"
    /\ \A q \in Ranks : allreduceIn[q] # << >>
    /\ IF IsBcastRoot(MINLOC(allreduceIn), r)
         THEN /\ bcastBuf' = optimum[r][1]
              /\ optimalConfig' = [optimalConfig EXCEPT ![r] = optimum[r][1]]
              /\ traversalTimes' = [traversalTimes EXCEPT ![r] = << >>]
              /\ mpiPc' = [mpiPc EXCEPT ![r] = "done"]
         ELSE /\ mpiPc' = [mpiPc EXCEPT ![r] = "bcast"]
              /\ UNCHANGED <<bcastBuf, optimalConfig, traversalTimes>>
    /\ UNCHANGED <<worldSize, allowed, ctorRange, searchSpace, tuningConfig, allConfigsTested,
                   tuningRequest, sampled, optimum, allreduceIn, lastEvidence, phaseMin,
                   tuningPhase, phaseLog, mpirest>>

\* selectOptimalConfiguration from the return of the Bcast on a rank that is
\* not the root.
BcastReturn(r) ==
    /\ mpiPc[r] = "bcast"
    /\ bcastBuf # NoConfig
    /\ optimalConfig' = [optimalConfig EXCEPT ![r] = bcastBuf]
    /\ traversalTimes' = [traversalTimes EXCEPT ![r] = << >>]
    /\ mpiPc' = [mpiPc EXCEPT ![r] = "done"]
    /\ UNCHANGED <<worldSize, allowed, ctorRange, searchSpace, tuningConfig, allConfigsTested,
                   tuningRequest, sampled, optimum, allreduceIn, bcastBuf, lastEvidence,
                   phaseMin, tuningPhase, phaseLog, mpirest>>

\* FullSearchMPI::reset at the start of the next tuning phase.  The ranks
\* start a phase at the same iteration, so none starts it before all have
\* finished the phase before.
Reset(r) ==
    /\ mpiPc[r] = "done"
    /\ \A q \in Ranks : tuningPhase[q] = tuningPhase[r] => mpiPc[q] = "done"
    /\ traversalTimes' = [traversalTimes EXCEPT ![r] = << >>]
    /\ tuningConfig' = [tuningConfig EXCEPT ![r] = 1]
    /\ optimalConfig' = [optimalConfig EXCEPT ![r] = NoConfig]
    /\ allConfigsTested' = [allConfigsTested EXCEPT ![r] = FALSE]
    /\ tuningRequest' = [tuningRequest EXCEPT ![r] = FALSE]
    /\ mpiPc' = [mpiPc EXCEPT ![r] = "tuning"]
    /\ optimum' = [optimum EXCEPT ![r] = << >>]
    /\ allreduceIn' = [allreduceIn EXCEPT ![r] = << >>]
    /\ bcastBuf' = NoConfig
    /\ lastEvidence' = [lastEvidence EXCEPT ![r] = << >>]
    /\ phaseMin' = [phaseMin EXCEPT ![r] = 0]
    /\ tuningPhase' = [tuningPhase EXCEPT ![r] = 1 - @]
    /\ phaseLog' = [phaseLog EXCEPT ![r] = [visited |-> {1}, requests |-> 0]]
    /\ UNCHANGED <<worldSize, allowed, ctorRange, searchSpace, sampled, mpirest>>

NextMPI ==
    \/ \E r \in Ranks, time \in Times : AddEvidence(r, time)
    \/ \E r \in Ranks, currentInvalid \in BOOLEAN : Tune(r, currentInvalid)
    \/ \E r \in Ranks : AllreduceReturn(r)
    \/ \E r \in Ranks : BcastReturn(r)
    \/ \E r \in Ranks : Reset(r)

SpecMPI == InitMPI /\ [][NextMPI]_vars

(***************************************************************************)
(* Claims about FullSearchMPI.                                             *)
(***************************************************************************)

\* The rank has left selectOptimalConfiguration: it has committed.
Committed(r) == mpiPc[r] = "done"

AllCommitted ==
    \A r \in Ranks : Committed(r) /\ tuningPhase[r] = tuningPhase[0]

\* C3: after a tuning phase in which every rank finished its local search,
\* all ranks hold the same committed configuration: any two ranks that have
\* committed in the same phase return the same configuration from
\* getCurrentConfiguration, and it is a valid configuration.
C3_Agreement ==
    \A r, q \in Ranks :
        (Committed(r) /\ Committed(q) /\ tuningPhase[r] = tuningPhase[q])
            => /\ getCurrentConfiguration(r) = getCurrentConfiguration(q)
               /\ getCurrentConfiguration(r) = optimalConfig[r]
               /\ optimalConfig[r] # NoConfig

\* Two ranks whose local optima differ have both committed.
C3_Witness ==
    /\ worldSize = MaxRanks
    /\ AllCommitted
    /\ \E r, q \in Ranks : optimum[r][1] # optimum[q][1]

\* The rank the reduction names, and the value it reports.
ElectedRank == MINLOC(allreduceIn)[2]
ElectedTime == MINLOC(allreduceIn)[1]

\* The times the phase's last measurement of each configuration left, over
\* all ranks.
LatestTimes ==
    UNION { { lastEvidence[q][c] : c \in DOMAIN lastEvidence[q] } : q \in Ranks }

\* C4: the committed configuration is owned by the rank MINLOC reports: it is
\* in that rank's search space and the rank measured it.  Its time is the
\* smallest, over all ranks, of the times addEvidence recorded last for each
\* configuration in the phase, and the rank reported is the lowest rank with
\* that time.
C4_Election ==
    AllCommitted =>
        \A r \in Ranks :
            /\ optimalConfig[r] = optimum[ElectedRank][1]
            /\ optimalConfig[r] \in searchSpace[ElectedRank]
            /\ optimalConfig[r] \in DOMAIN lastEvidence[ElectedRank]
            /\ lastEvidence[ElectedRank][optimalConfig[r]] = ElectedTime
            /\ ElectedTime = SetMin(LatestTimes)
            /\ \A q \in Ranks :
                   (\E c \in DOMAIN lastEvidence[q] : lastEvidence[q][c] = ElectedTime)
                       => ElectedRank <= q

\* The ranks have committed, the fastest measurement was made on the higher
\* rank, and the ranks' optima differ.
C4_Witness ==
    /\ worldSize = MaxRanks
    /\ AllCommitted
    /\ ElectedRank > 0
    /\ \E q \in Ranks : optimum[q][2] > ElectedTime

\* C4 as stated: the committed time is the smallest of all the times
\* addEvidence recorded in the phase.
C4_TimeIsMinOfAllRecorded ==
    AllCommitted => ElectedTime = SetMin({ phaseMin[q] : q \in Ranks })

\* The ranks that have run their constructor.
Constructed == { r \in Ranks : mpiPc[r] # "new" }

\* The block sizes the division is to give: the first T mod W ranks one more
\* than the others.
BlockSizeOf(r) ==
    LET T == totalNumConfigs(allowed)
    IN  (T \div worldSize) + (IF r < T % worldSize THEN 1 ELSE 0)

\* C5: when there are at least as many configurations as ranks, the ranges
\* [start, startNext) of the ranks are contiguous, pairwise disjoint and
\* cover [0, T); the lower-indexed ranks take the T mod W extra
\* configurations; and the search space of a rank holds exactly the
\* configurations the loops of populateSearchSpace number start ..
\* startNext - 1.
C5_Partition ==
    LET T == totalNumConfigs(allowed)
    IN  (T >= worldSize) =>
          \A r \in Constructed :
            /\ (r = 0) => ctorRange[r][1] = 0
            /\ (r = worldSize - 1) => ctorRange[r][2] = T
            /\ ctorRange[r][2] - ctorRange[r][1] = BlockSizeOf(r)
            /\ (r + 1 \in Constructed) => ctorRange[r][2] = ctorRange[r + 1][1]
            /\ \A q \in Constructed :
                   q # r => (ctorRange[q][1] .. (ctorRange[q][2] - 1))
                              \cap (ctorRange[r][1] .. (ctorRange[r][2] - 1)) = {}
            /\ (Constructed = Ranks) =>
                   UNION { ctorRange[q][1] .. (ctorRange[q][2] - 1) : q \in Ranks }
                       = 0 .. (T - 1)
            /\ searchSpace[r] =
                   { LoopOrder(allowed)[i + 1] : i \in ctorRange[r][1] .. (ctorRange[r][2] - 1) }
            /\ Cardinality(searchSpace[r]) = BlockSizeOf(r)
            /\ (T = 4 /\ worldSize = 2) =>
                   ctorRange[r] = (IF r = 0 THEN <<0, 2>> ELSE <<2, 4>>)

\* Every rank is constructed, and the configurations do not divide evenly
\* among the ranks.
C5_Witness ==
    /\ worldSize > 1
    /\ Constructed = Ranks
    /\ totalNumConfigs(allowed) > worldSize
    /\ totalNumConfigs(allowed) % worldSize # 0

(***************************************************************************)
(* Particles and boxes.                                                    *)
(***************************************************************************)

Coord == 0 .. MaxCoord

\* The positions particles are put at: the points of the x axis through
\* <<1, 1, 1>>, a point of the upper face in y and a point of the lower face
\* in z.  On every axis 0 is the lower face of the box (inside) and MaxCoord
\* the upper face (outside).
Positions ==
    { r \in Coord \X Coord \X Coord : r[2] = 1 /\ r[3] = 1 }
        \cup { <<1, MaxCoord, 1>>, <<1, 1, 0>> }

\* The corners of the regions asked for: the points of the diagonal.
Corners == { <<c, c, c>> : c \in Coord }

boxMin == <<0, 0, 0>>
boxMax == <<MaxCoord, MaxCoord, MaxCoord>>

\* utils::inBox: low is inside, high is not.
inBox(position, low, high) ==
    \A k \in 1..3 : position[k] >= low[k] /\ position[k] < high[k]

\* How often a sequence holds the particle with an id.
CountId(seq, id) == Cardinality({ i \in 1 .. Len(seq) : seq[i].id = id })

(***************************************************************************)
(* DirectSum (DirectSum.h): one cell of owned particles, _cells[0], and    *)
(* one cell of halo particles, _cells[1].                                  *)
(***************************************************************************)

\* DirectSum::DirectSum
InitDS ==
    /\ ds = [owned |-> << >>, halo |-> << >>, added |-> 0, call |-> "construct",
             exception |-> FALSE, before |-> << >>, returned |-> << >>,
             arg |-> << >>, calls |-> << >>]
    /\ IdleC08
    /\ IdleMPI
    /\ IdlePV
    /\ IdleLP
    /\ IdlePT
    /\ IdleCT
    /\ IdleTW
    /\ IdleRL
    /\ IdleSL
    /\ IdleOT
    /\ IdleVL
    /\ IdleRC
    /\ IdleIP
    /\ IdlePA
    /\ IdleGP
    /\ IdleN3
    /\ IdleVC
    /\ IdleDT

\* DirectSum::addParticle without the bounding-box test.
DSAddParticleAnywhere(r) ==
    /\ ds.added < MaxAdded
    /\ ds' = [ds EXCEPT !.owned = Append(@, [id |-> ds.added + 1, r |-> r]),
                        !.added = @ + 1, !.call = "addParticle", !.exception = FALSE,
                        !.before = << >>, !.returned = << >>, !.arg = r, !.calls = << >>]
    /\ UNCHANGED dsrest

\* DirectSum::addParticle, with the next unused id and a position; arg keeps
\* the argument the call was given.
DSAddParticle(r) ==
    /\ ds.added < MaxAdded
    /\ LET p == [id |-> ds.added + 1, r |-> r]
       IN  IF inBox(p.r, boxMin, boxMax)
             THEN ds' = [ds EXCEPT !.owned = Append(@, p), !.added = @ + 1,
                                   !.call = "addParticle", !.exception = FALSE,
                                   !.before = << >>, !.returned = << >>,
                                   !.arg = r, !.calls = << >>]
             ELSE ds' = [ds EXCEPT !.added = @ + 1,
                                   !.call = "addParticle", !.exception = TRUE,
                                   !.before = << >>, !.returned = << >>,
                                   !.arg = r, !.calls = << >>]
    /\ UNCHANGED dsrest

\* DirectSum::addHaloParticle
DSAddHaloParticle(r) ==
    /\ ds.added < MaxAdded
    /\ LET p == [id |-> ds.added + 1, r |-> r]
       IN  IF ~inBox(p.r, boxMin, boxMax)
             THEN ds' = [ds EXCEPT !.halo = Append(@, p), !.added = @ + 1,
                                   !.call = "addHaloParticle", !.exception = FALSE,
                                   !.before = << >>, !.returned = << >>,
                                   !.arg = r, !.calls = << >>]
             ELSE ds' = [ds EXCEPT !.added = @ + 1,
                                   !.call = "addHaloParticle", !.exception = TRUE,
                                   !.before = << >>, !.returned = << >>,
                                   !.arg = r, !.calls = << >>]
    /\ UNCHANGED dsrest

\* DirectSum::deleteHaloParticles
DSDeleteHaloParticles ==
    /\ ds.halo # << >>
    /\ ds' = [ds EXCEPT !.halo = << >>, !.call = "deleteHaloParticles", !.exception = FALSE,
                        !.before = << >>, !.returned = << >>, !.arg = << >>, !.calls = << >>]
    /\ UNCHANGED dsrest

\* The simulation moves an owned particle through the container's iterator
\* (TimeDiscretization::calculatePositions).
DSMove(i, r) ==
    /\ i \in 1 .. Len(ds.owned)
    /\ r # ds.owned[i].r
    /\ ds' = [ds EXCEPT !.owned[i].r = r, !.call = "move", !.exception = FALSE,
                        !.before = << >>, !.returned = << >>, !.arg = << >>, !.calls = << >>]
    /\ UNCHANGED dsrest

\* DirectSum::updateContainer: the body is empty and nothing is returned.
\* before keeps the owned cell as it was at the call.
DSUpdateContainer ==
    /\ ds.call # "updateContainer"
    /\ ds' = [ds EXCEPT !.call = "updateContainer", !.exception = FALSE,
                        !.before = ds.owned, !.returned = << >>, !.arg = << >>, !.calls = << >>]
    /\ UNCHANGED dsrest

\* CellFunctor of DirectSum::iteratePairwiseAoS with a halo self-pair added.
iteratePairwiseAoSWithHalo(useNewton3) ==
    << [op |-> "processCell", cells |-> <<"owned">>, useSoA |-> FALSE, useNewton3 |-> useNewton3],
       [op |-> "processCellPair", cells |-> <<"owned", "halo">>, useSoA |-> FALSE,
        useNewton3 |-> useNewton3],
       [op |-> "processCell", cells |-> <<"halo">>, useSoA |-> FALSE, useNewton3 |-> useNewton3] >>

\* DirectSum::iteratePairwiseAoS: the calls it makes on the cell functor, in
\* order; both branches make the same two calls on a functor built with
\* their Newton-3 flag.
iteratePairwiseAoS(useNewton3) ==
    IF useNewton3
      THEN << [op |-> "processCell", cells |-> <<"owned">>, useSoA |-> FALSE, useNewton3 |-> TRUE],
              [op |-> "processCellPair", cells |-> <<"owned", "halo">>, useSoA |-> FALSE,
               useNewton3 |-> TRUE] >>
      ELSE << [op |-> "processCell", cells |-> <<"owned">>, useSoA |-> FALSE, useNewton3 |-> FALSE],
              [op |-> "processCellPair", cells |-> <<"owned", "halo">>, useSoA |-> FALSE,
               useNewton3 |-> FALSE] >>

\* DirectSum::iteratePairwiseSoA: the calls it makes on the functor and the
\* cell functor, in order.
iteratePairwiseSoA(useNewton3) ==
    << [op |-> "SoALoader", cells |-> <<"owned">>, useSoA |-> TRUE, useNewton3 |-> useNewton3],
       [op |-> "SoALoader", cells |-> <<"halo">>, useSoA |-> TRUE, useNewton3 |-> useNewton3] >>
    \o (IF useNewton3
          THEN << [op |-> "processCell", cells |-> <<"owned">>, useSoA |-> TRUE,
                   useNewton3 |-> TRUE],
                  [op |-> "processCellPair", cells |-> <<"owned", "halo">>, useSoA |-> TRUE,
                   useNewton3 |-> TRUE] >>
          ELSE << [op |-> "processCell", cells |-> <<"owned">>, useSoA |-> TRUE,
                   useNewton3 |-> FALSE],
                  [op |-> "processCellPair", cells |-> <<"owned", "halo">>, useSoA |-> TRUE,
                   useNewton3 |-> FALSE] >>)
    \o << [op |-> "SoAExtractor", cells |-> <<"owned">>, useSoA |-> TRUE,
           useNewton3 |-> useNewton3],
          [op |-> "SoAExtractor", cells |-> <<"halo">>, useSoA |-> TRUE,
           useNewton3 |-> useNewton3] >>

\* One call of DirectSum::iteratePairwiseAoS; calls keeps what it called.
DSIteratePairwiseAoS(useNewton3) ==
    /\ ds' = [ds EXCEPT !.call = "iteratePairwiseAoS", !.exception = FALSE,
                        !.before = << >>, !.returned = << >>, !.arg = useNewton3,
                        !.calls = iteratePairwiseAoS(useNewton3)]
    /\ UNCHANGED dsrest

\* One call of DirectSum::iteratePairwiseSoA.
DSIteratePairwiseSoA(useNewton3) ==
    /\ ds' = [ds EXCEPT !.call = "iteratePairwiseSoA", !.exception = FALSE,
                        !.before = << >>, !.returned = << >>, !.arg = useNewton3,
                        !.calls = iteratePairwiseSoA(useNewton3)]
    /\ UNCHANGED dsrest

NextDS ==
    \/ \E r \in Positions : DSAddParticle(r)
    \/ \E r \in Positions : DSAddHaloParticle(r)
    \/ DSDeleteHaloParticles
    \/ \E i \in 1 .. MaxAdded, r \in Positions : DSMove(i, r)
    \/ DSUpdateContainer
    \/ \E useNewton3 \in BOOLEAN : DSIteratePairwiseAoS(useNewton3)
    \/ \E useNewton3 \in BOOLEAN : DSIteratePairwiseSoA(useNewton3)

SpecDS == InitDS /\ [][NextDS]_vars

\* C6: updateContainer returns every owned particle whose position is outside
\* [boxMin, boxMax) exactly once and no other particle, and afterwards the
\* container holds every owned particle whose position is inside exactly
\* once.  Stated for DirectSum: after a call, every particle the owned cell
\* held at the call is in the returned collection once and no longer in the
\* container if it was outside, and in the owned cell once and not returned
\* if it was inside.
C6_UpdateContainer ==
    (ds.call = "updateContainer") =>
        \A i \in 1 .. Len(ds.before) :
            LET p == ds.before[i]
            IN  IF inBox(p.r, boxMin, boxMax)
                  THEN CountId(ds.owned, p.id) = 1 /\ CountId(ds.returned, p.id) = 0
                  ELSE CountId(ds.owned, p.id) = 0 /\ CountId(ds.returned, p.id) = 1

\* updateContainer was called with an owned particle outside the box and an
\* owned particle inside.
C6_Witness ==
    /\ ds.call = "updateContainer"
    /\ \E i, j \in 1 .. Len(ds.before) :
           /\ ~inBox(ds.before[i].r, boxMin, boxMax)
           /\ inBox(ds.before[j].r, boxMin, boxMax)

(***************************************************************************)
(* ParticleView (ParticleView.h): the particles of a Kokkos container in   *)
(* one view, iterated by index.                                            *)
(***************************************************************************)

\* IteratorBehavior::contains
contains(behavior, particle) ==
    CASE behavior = "owned"              -> particle.ownership = "owned"
      [] behavior = "halo"               -> particle.ownership = "halo"
      [] behavior = "ownedOrHalo"        -> particle.ownership \in {"owned", "halo"}
      [] behavior = "ownedOrHaloOrDummy" -> TRUE

\* The loop without the region check.
forEachNoRegionCheck(view, ownershipCheck, regionCheck, behavior, lowerCorner, higherCorner) ==
    SelectSeq([i \in 1 .. Len(view) |-> i],
              LAMBDA i : (~ownershipCheck) \/ contains(behavior, view[i]))

\* ParticleView::_forEach over RangePolicy(0, _size): the indices of the
\* particles the lambda is called with (counted from 1).
forEach(view, ownershipCheck, regionCheck, behavior, lowerCorner, higherCorner) ==
    SelectSeq([i \in 1 .. Len(view) |-> i],
              LAMBDA i :
                  /\ (~ownershipCheck) \/ contains(behavior, view[i])
                  /\ (~regionCheck) \/ inBox(view[i].r, lowerCorner, higherCorner))

\* The orders binParticles can leave: the particles that are no dummies,
\* cell after cell; within a cell in the order the threads took their slots.
RECURSIVE Orders(_)
Orders(S) ==
    IF S = {} THEN { << >> }
    ELSE UNION { { <<x>> \o q : q \in Orders(S \ {x}) } : x \in S }

\* The cell a Kokkos direct sum bins a particle into: owned 0, halo 1.
particleBinningLambda(particle) == IF particle.ownership = "owned" THEN 0 ELSE 1

binParticles(view) ==
    LET live == { i \in 1 .. Len(view) : view[i].ownership # "dummy" }
    IN  { [k \in 1 .. Len(q) |-> view[q[k]]] :
            q \in { o \in Orders(live) :
                      \A a, b \in 1 .. Len(o) :
                          a < b => particleBinningLambda(view[o[a]])
                                     <= particleBinningLambda(view[o[b]]) } }

\* ParticleView::ParticleView
InitPV ==
    /\ pv = [view |-> << >>, capacity |-> 8, sorted |-> FALSE,
             query |-> << >>, visited |-> << >>]
    /\ IdleC08
    /\ IdleMPI
    /\ IdleDS
    /\ IdleLP
    /\ IdlePT
    /\ IdleCT
    /\ IdleTW
    /\ IdleRL
    /\ IdleSL
    /\ IdleOT
    /\ IdleVL
    /\ IdleRC
    /\ IdleIP
    /\ IdlePA
    /\ IdleGP
    /\ IdleN3
    /\ IdleVC
    /\ IdleDT

\* ParticleView::addParticle, under the view's lock.  The length of view is _size.
addParticle(p) ==
    /\ Len(pv.view) < MaxParticles
    /\ pv' = [pv EXCEPT !.view = Append(@, p),
                        !.capacity = IF Len(pv.view) = @ THEN 2 * @ ELSE @,
                        !.sorted = FALSE, !.query = << >>, !.visited = << >>]
    /\ UNCHANGED pvrest

\* A container adds an owned particle.
PVAddParticle(r) == addParticle([r |-> r, ownership |-> "owned"])

\* ParticleView::addHaloParticle, called by a container with a halo particle.
PVAddHaloParticle(r) == addParticle([r |-> r, ownership |-> "halo"])

\* internal::deleteParticle: the particle is marked a dummy in place.
PVDeleteParticle(i) ==
    /\ i \in 1 .. Len(pv.view)
    /\ pv.view[i].ownership # "dummy"
    /\ pv' = [pv EXCEPT !.view[i].ownership = "dummy",
                        !.sorted = FALSE, !.query = << >>, !.visited = << >>]
    /\ UNCHANGED pvrest

\* ParticleView::binParticles, as the container runs it before a pairwise
\* iteration: the dummies are dropped and the rest is sorted by cell.
PVBinParticles ==
    /\ pv.view # << >>
    /\ \E v \in binParticles(pv.view) :
           pv' = [pv EXCEPT !.view = v, !.sorted = TRUE, !.query = << >>, !.visited = << >>]
    /\ UNCHANGED pvrest

\* ParticleView::forEach(lambda, lowerCorner, higherCorner, behavior)
PVForEachInRegion(lowerCorner, higherCorner, behavior) ==
    /\ \A k \in 1..3 : lowerCorner[k] <= higherCorner[k]
    /\ pv.view # << >>
    /\ pv' = [pv EXCEPT !.query = <<lowerCorner, higherCorner, behavior>>,
                        !.visited = forEach(pv.view, TRUE, TRUE, behavior,
                                            lowerCorner, higherCorner)]
    /\ UNCHANGED pvrest

NextPV ==
    \/ \E r \in Positions : PVAddParticle(r)
    \/ \E r \in Positions : PVAddHaloParticle(r)
    \/ \E i \in 1 .. MaxParticles : PVDeleteParticle(i)
    \/ PVBinParticles
    \/ \E lo \in Corners, hi \in Corners, b \in {"owned", "halo", "ownedOrHalo"} :
           PVForEachInRegion(lo, hi, b)

SpecPV == InitPV /\ [][NextPV]_vars

\* The ownership of the particle is one the behavior asks for.
Matches(behavior, ownership) ==
    \/ behavior = "owned" /\ ownership = "owned"
    \/ behavior = "halo" /\ ownership = "halo"
    \/ behavior = "ownedOrHalo" /\ (ownership = "owned" \/ ownership = "halo")

InHalfOpen(r, lo, hi) == \A k \in 1..3 : lo[k] <= r[k] /\ r[k] < hi[k]

InClosed(r, lo, hi) == \A k \in 1..3 : lo[k] <= r[k] /\ r[k] <= hi[k]

\* How often the iteration visited the particle at an index.
Visits(i) == Cardinality({ j \in 1 .. Len(pv.visited) : pv.visited[j] = i })

RECURSIVE ToBytes(_, _)
ToBytes(n, len) ==
    IF len = 0 THEN << >> ELSE <<n % 256>> \o ToBytes(n \div 256, len - 1)

RECURSIVE AddBytes(_, _, _, _)
AddBytes(a, b, j, carry) ==
    IF j > 8 THEN << >>
    ELSE LET s == a[j] + b[j] + carry
         IN  <<s % 256>> \o AddBytes(a, b, j + 1, s \div 256)

\* a + b in unsigned long
U64Add(a, b) == AddBytes(a, b, 1, 0)

\* -a in unsigned long
U64Neg(a) == U64Add([j \in 1..8 |-> 255 - a[j]], ToBytes(1, 8))

\* The conversion of a long, or of an unsigned int, to unsigned long.
toUnsigned(x) == IF x >= 0 THEN ToBytes(x, 8) ELSE U64Neg(ToBytes(-x, 8))

RECURSIVE MulBytes(_, _, _, _)
MulBytes(a, m, j, carry) ==
    IF j > 8 THEN << >>
    ELSE LET s == a[j] * m + carry
         IN  <<s % 256>> \o MulBytes(a, m, j + 1, s \div 256)

ShiftBytes(a, n) == [j \in 1..8 |-> IF j <= n THEN 0 ELSE a[j - n]]

RECURSIVE MulAcc(_, _, _)
MulAcc(a, b, j) ==
    IF j > 8 THEN ToBytes(0, 8)
    ELSE U64Add(ShiftBytes(MulBytes(a, b[j], 1, 0), j - 1), MulAcc(a, b, j + 1))

\* a * b in unsigned long
U64Mul(a, b) == MulAcc(a, b, 1)

RECURSIVE DivBytes(_, _, _, _)
DivBytes(a, k, j, rem) ==
    IF j = 0 THEN << >>
    ELSE LET cur == rem * 256 + a[j]
         IN  DivBytes(a, k, j - 1, cur % k) \o <<cur \div k>>

\* a / k in unsigned long, for a divisor 0 < k < 2^23: the divisor of
\* linePrediction is the distance between the iterations of two samples.
U64Div(a, k) == DivBytes(a, k, 8, 0)

RECURSIVE LessFrom(_, _, _)
LessFrom(a, b, j) ==
    IF j = 0 THEN FALSE
    ELSE IF a[j] # b[j] THEN a[j] < b[j] ELSE LessFrom(a, b, j - 1)

\* a < b in unsigned long
U64Less(a, b) == LessFrom(a, b, 8)

\* auto gradient = (traversal1.second - traversal2.second)
\*               / (traversal1.first - traversal2.first);
\* the difference of the times is a long, the difference of the iterations a
\* size_t, so the long is converted and the division is unsigned.
gradientOf(traversal1, traversal2) ==
    U64Div(toUnsigned(traversal1[2] - traversal2[2]), traversal1[1] - traversal2[1])

\* PredictiveTuning::linePrediction for one configuration: traversal1 is the
\* last sample <<iteration, time>> and traversal2 the one before it; the result
\* is the size_t stored in _configurationPredictions.
linePrediction(traversal2, traversal1, iterationBeginTuningPhase) ==
    LET gradient == gradientOf(traversal1, traversal2)
        delta == toUnsigned(iterationBeginTuningPhase - traversal1[1])
    IN  U64Add(toUnsigned(traversal1[2]), U64Mul(gradient, delta))

\* The inputs of one call: two samples of a configuration taken at increasing
\* iterations, and a tuning phase that begins no earlier than the last of them.
InitLP ==
    /\ \E i2 \in 0..MaxIter, i1 \in 0..MaxIter, p \in 0..MaxIter, t2 \in Times, t1 \in Times :
          /\ i2 < i1
          /\ i1 <= p
          /\ lp = [traversal2 |-> <<i2, t2>>, traversal1 |-> <<i1, t1>>,
                   iterationBeginTuningPhase |-> p, prediction |-> << >>]
    /\ IdleC08
    /\ IdleMPI
    /\ IdleDS
    /\ IdlePV
    /\ IdlePT
    /\ IdleCT
    /\ IdleTW
    /\ IdleRL
    /\ IdleSL
    /\ IdleOT
    /\ IdleVL
    /\ IdleRC
    /\ IdleIP
    /\ IdlePA
    /\ IdleGP
    /\ IdleN3
    /\ IdleVC
    /\ IdleDT

LinePrediction ==
    /\ lp.prediction = << >>
    /\ lp' = [lp EXCEPT !.prediction =
                 linePrediction(lp.traversal2, lp.traversal1, lp.iterationBeginTuningPhase)]
    /\ UNCHANGED lprest

NextLP == LinePrediction

SpecLP == InitLP /\ [][NextLP]_vars

\* t1 + ((t1 - t2) / (i1 - i2)) * (p - i1) over the integers, the quotient
\* truncated towards zero.
Extrapolation(traversal2, traversal1, p) ==
    LET d == traversal1[2] - traversal2[2]
        k == traversal1[1] - traversal2[1]
        q == IF d < 0 THEN -((-d) \div k) ELSE d \div k
    IN  traversal1[2] + q * (p - traversal1[1])

\* C10: the prediction of a configuration for a phase that begins at iteration p
\* is t1 + ((t1 - t2) / (i1 - i2)) * (p - i1) in integer arithmetic, for
\* increasing and for decreasing times alike (a negative value is compared as
\* the size_t it is stored as).
C10_LinePrediction ==
    lp # << >> /\ lp.prediction # << >> =>
        lp.prediction =
            toUnsigned(Extrapolation(lp.traversal2, lp.traversal1,
                                     lp.iterationBeginTuningPhase))

\* A prediction made from times that decrease over more than one iteration.
C10_Witness ==
    /\ lp # << >>
    /\ lp.prediction # << >>
    /\ lp.traversal1[2] < lp.traversal2[2]
    /\ lp.traversal1[1] - lp.traversal2[1] > 1
    /\ lp.prediction #
           toUnsigned(Extrapolation(lp.traversal2, lp.traversal1,
                                    lp.iterationBeginTuningPhase))

\* ---------------------------------------------------------------------------
\* PredictiveTuning
\* ---------------------------------------------------------------------------
\* The search space is a std::set<Configuration>: the configurations are
\* numbered in the order of Configuration::operator<.
PTSearchSpace == 1 .. MaxConfigs

\* The times a measurement can give: their quotient is the relative optimum
\* range 1.2.
PTTimes == {5, 6}

RECURSIVE BitsOfByte(_, _)
BitsOfByte(b, n) == IF n = 0 THEN << >> ELSE BitsOfByte(b \div 2, n - 1) \o <<b % 2>>

RECURSIVE BitsFrom(_, _)
BitsFrom(a, j) == IF j = 0 THEN << >> ELSE BitsOfByte(a[j], 8) \o BitsFrom(a, j - 1)

RECURSIVE ValueOf(_, _, _)
ValueOf(bits, from, to) ==
    IF to < from THEN 0 ELSE 2 * ValueOf(bits, from, to - 1) + bits[to]

\* (float)a for a size_t a > 0: the value m * 2^e with 2^23 <= m < 2^24, the 64
\* bits rounded to 24 to nearest, ties to even.
toFloat(a) ==
    LET bits == BitsFrom(a, 8)
        f == CHOOSE i \in 1..64 : bits[i] = 1 /\ \A j \in 1..(i - 1) : bits[j] = 0
        len == 65 - f
    IN  IF len <= 24
        THEN [m |-> ValueOf(bits, f, 64) * 2^(24 - len), e |-> len - 24]
        ELSE LET m0 == ValueOf(bits, f, f + 23)
                 sticky == \E i \in (f + 25)..64 : bits[i] = 1
                 up == bits[f + 24] = 1 /\ (sticky \/ m0 % 2 = 1)
                 m1 == IF up THEN m0 + 1 ELSE m0
             IN  IF m1 = 2^24 THEN [m |-> 2^23, e |-> len - 23]
                 ELSE [m |-> m1, e |-> len - 24]

\* (float)_configurationPredictions[configuration] / optimum->second
\*     <= _relativeOptimumRange
\* with _relativeOptimumRange the double 1.2.  The quotient of the two floats is
\* rounded to a float and compared as a double: the double 1.2 lies between the
\* floats 10066329 * 2^-23 and 10066330 * 2^-23, so the test holds exactly when
\* the quotient rounds to 10066329 * 2^-23 or less, that is when the exact
\* quotient X / Y of the two floats is below the midpoint 6/5 - 1/(5 * 2^24);
\* with Y < 2^24 that is 5 * X < 6 * Y.  A division by 0.0f gives an infinity
\* or a NaN, and the test fails.
withinRange(prediction, best) ==
    IF best = ToBytes(0, 8) THEN FALSE
    ELSE IF prediction = ToBytes(0, 8) THEN TRUE
    ELSE LET x == toFloat(prediction)
             y == toFloat(best)
         IN  IF x.e - y.e >= 2 THEN FALSE
             ELSE IF x.e - y.e < 0 THEN TRUE
             ELSE 5 * x.m * 2^(x.e - y.e) < 6 * y.m

\* The test that lets a configuration wait one phase longer.
tooLongNotTestedLate(tuningIterationsCounter, lastTest) ==
    tuningIterationsCounter - lastTest > maxTuningIterationsWithoutTest + 1

\* _tuningIterationsCounter - _lastTest[configuration] > _maxTuningIterationsWithoutTest
tooLongNotTested(tuningIterationsCounter, lastTest) ==
    tuningIterationsCounter - lastTest > maxTuningIterationsWithoutTest

\* getOptimum of a map from configurations to size_t values: an element with
\* the smallest value; which one of several is left to the order of the map.
getOptimum(map) ==
    { c \in DOMAIN map : \A d \in DOMAIN map : ~U64Less(map[d], map[c]) }

\* Iterators into the three sets: the set and the element, 0 at end().
end(container) == <<container, 0>>

Container(p, name) ==
    IF name = "searchSpace" THEN p.searchSpace
    ELSE IF name = "optimalSearchSpace" THEN p.optimalSearchSpace
    ELSE p.tooLongNotTestedSearchSpace

begin(p, name) ==
    IF Container(p, name) = {} THEN end(name)
    ELSE <<name, CHOOSE c \in Container(p, name) : \A d \in Container(p, name) : c <= d>>

\* ++it
increment(p, it) ==
    LET later == { c \in Container(p, it[1]) : c > it[2] }
    IN  IF later = {} THEN end(it[1])
        ELSE <<it[1], CHOOSE c \in later : \A d \in later : c <= d>>

Last(seq) == seq[Len(seq)]

\* PredictiveTuning::linePrediction over the whole search space: the map
\* _configurationPredictions.
linePredictions(p) ==
    [c \in p.searchSpace |->
        LET vector == p.traversalTimesStorage[c]
        IN  linePrediction(vector[Len(vector) - 1], vector[Len(vector)],
                           p.iterationBeginTuningPhase)]

\* PredictiveTuning::selectOptimalSearchSpace: the states it can leave.  Reading
\* vector[size - 2] of a vector with fewer than two samples is undefined.
selectOptimalSearchSpace(p) ==
    IF Cardinality(p.searchSpace) = 1 \/ p.tuningIterationsCounter < 2
    THEN { [p EXCEPT !.currentConfig = begin(p, "searchSpace")] }
    ELSE IF \E c \in p.searchSpace : Len(p.traversalTimesStorage[c]) < 2
    THEN { [p EXCEPT !.pc = "undefined"] }
    ELSE LET predictions == linePredictions(p)
             near(o) == { c \in p.searchSpace : withinRange(predictions[c], predictions[o]) }
             selected(o) ==
                 [p EXCEPT !.configurationPredictions = predictions,
                           !.optimalSearchSpace = {o} \cup near(o),
                           !.tooLongNotTestedSearchSpace =
                               { c \in p.searchSpace \ near(o) :
                                   tooLongNotTested(p.tuningIterationsCounter, p.lastTest[c]) }]
         IN  { [selected(o) EXCEPT !.currentConfig = begin(selected(o), "optimalSearchSpace")] :
                   o \in getOptimum(predictions) }

\* PredictiveTuning::reset
reset(p, iteration) ==
    selectOptimalSearchSpace(
        [p EXCEPT !.configurationPredictions = << >>,
                  !.optimalSearchSpace = {},
                  !.tooLongNotTestedSearchSpace = {},
                  !.validSearchSpace = p.searchSpace,
                  !.validConfigurationFound = FALSE,
                  !.iterationBeginTuningPhase = iteration])

\* A reselection that walks the same candidates again.
reselectSameCandidates(p) ==
    { [p EXCEPT !.currentConfig = begin(p, "optimalSearchSpace")] }

\* PredictiveTuning::reselectOptimalSearchSpace
reselectOptimalSearchSpace(p) ==
    LET predictions == [c \in DOMAIN p.configurationPredictions \ p.optimalSearchSpace |->
                            p.configurationPredictions[c]]
        valid == p.validSearchSpace \ p.optimalSearchSpace
        q == [p EXCEPT !.configurationPredictions = predictions,
                       !.validSearchSpace = valid,
                       !.optimalSearchSpace = {}]
        near(o) == { c \in valid : withinRange(predictions[c], predictions[o]) }
        selected(o) ==
            [q EXCEPT !.optimalSearchSpace = {o} \cup near(o),
                      !.tooLongNotTestedSearchSpace = @ \ near(o)]
    IN  IF Cardinality(valid) = 1
        THEN LET r == [q EXCEPT !.optimalSearchSpace = valid]
             IN  { [r EXCEPT !.currentConfig = begin(r, "optimalSearchSpace")] }
        ELSE IF DOMAIN predictions = {}
        THEN { [q EXCEPT !.pc = "exception"] }
        ELSE { IF o \in valid
               THEN [selected(o) EXCEPT !.currentConfig = begin(selected(o), "optimalSearchSpace")]
               ELSE [q EXCEPT !.pc = "exception"] :
                   o \in getOptimum(predictions) }

\* PredictiveTuning::selectOptimalConfiguration.  back() of a vector without a
\* sample is undefined.
selectOptimalConfiguration(p) ==
    IF Cardinality(p.optimalSearchSpace) = 1
    THEN { [p EXCEPT !.currentConfig = begin(p, "optimalSearchSpace")] }
    ELSE IF Cardinality(p.searchSpace) = 1
    THEN { [p EXCEPT !.currentConfig = begin(p, "searchSpace")] }
    ELSE LET scanned == IF p.optimalSearchSpace = {} THEN p.searchSpace
                        ELSE p.optimalSearchSpace \cup p.tooLongNotTestedSearchSpace
             measured == { c \in scanned :
                             Last(p.traversalTimesStorage[c])[1] >= p.iterationBeginTuningPhase }
             times == [c \in measured |-> toUnsigned(Last(p.traversalTimesStorage[c])[2])]
         IN  IF \E c \in scanned : p.traversalTimesStorage[c] = << >>
             THEN { [p EXCEPT !.pc = "undefined"] }
             ELSE IF measured = {}
             THEN { [p EXCEPT !.pc = "exception"] }
             ELSE { [p EXCEPT !.currentConfig = <<"searchSpace", o>>] :
                        o \in getOptimum(times) }

\* The end of a tuning phase inside tune: selectOptimalConfiguration();
\* _tuningIterationsCounter++; return false;
endOfPhase(p) ==
    { IF q.pc = "tuning"
      THEN [q EXCEPT !.tuningIterationsCounter = @ + 1, !.pc = "done"]
      ELSE q : q \in selectOptimalConfiguration(p) }

\* PredictiveTuning::tune(currentInvalid): the states it can leave; pc is "done"
\* where it returns false and stays "tuning" where it returns true.
tune(p, currentInvalid) ==
    LET p1 == [p EXCEPT !.validConfigurationFound = IF ~currentInvalid THEN TRUE ELSE @,
                        !.currentConfig = increment(p, @)]
    IN  IF p1.currentConfig = end("searchSpace") \/ p1.currentConfig = end("optimalSearchSpace")
        THEN IF p1.validConfigurationFound
             THEN IF p1.tooLongNotTestedSearchSpace = {}
                  THEN endOfPhase(p1)
                  ELSE { [p1 EXCEPT !.currentConfig = begin(p1, "tooLongNotTestedSearchSpace")] }
             ELSE reselectOptimalSearchSpace(p1)
        ELSE IF p1.currentConfig = end("tooLongNotTestedSearchSpace")
        THEN endOfPhase(p1)
        ELSE { p1 }

\* The record of a phase that begins: whether predictions were made, the
\* predictions, the last-tested phases at its start, and the configurations that
\* have been current, have been measured, and have been reported invalid.
phaseBegins(p, q) ==
    [predicted |-> q.pc = "tuning" /\ DOMAIN q.configurationPredictions # {},
     predictions |-> q.configurationPredictions,
     completed |-> p.tuningIterationsCounter,
     lastTest |-> p.lastTest,
     current |-> IF q.pc = "tuning" THEN {q.currentConfig[2]} ELSE {},
     measured |-> {},
     invalid |-> {}]

\* The object after PredictiveTuning(allowedConfigurations..., 1.2,
\* maxTuningIterationsWithoutTest), and its caller at iteration 0.
InitPT ==
    /\ pt = [searchSpace |-> PTSearchSpace,
             currentConfig |-> <<"searchSpace", 1>>,
             traversalTimesStorage |-> [c \in PTSearchSpace |-> << >>],
             lastTest |-> [c \in PTSearchSpace |-> 0],
             configurationPredictions |-> << >>,
             optimalSearchSpace |-> {},
             tooLongNotTestedSearchSpace |-> {},
             validSearchSpace |-> {},
             tuningIterationsCounter |-> 0,
             iterationBeginTuningPhase |-> 0,
             validConfigurationFound |-> FALSE,
             pc |-> "done",
             iteration |-> 0,
             phase |-> << >>]
    /\ IdleC08
    /\ IdleMPI
    /\ IdleDS
    /\ IdlePV
    /\ IdleLP
    /\ IdleCT
    /\ IdleTW
    /\ IdleRL
    /\ IdleSL
    /\ IdleOT
    /\ IdleVL
    /\ IdleRC
    /\ IdleIP
    /\ IdlePA
    /\ IdleGP
    /\ IdleN3
    /\ IdleVC
    /\ IdleDT

\* The tuner enters a tuning phase: reset(iteration).
PTReset ==
    /\ pt.pc = "done"
    /\ pt.tuningIterationsCounter < MaxPhases
    /\ \E q \in reset([pt EXCEPT !.pc = "tuning"], pt.iteration) :
          pt' = [q EXCEPT !.phase = phaseBegins(pt, q)]
    /\ UNCHANGED ptrest

\* A vector that forgets all but its last two elements.
emplace_back_keeping_two(vector, sample) ==
    IF vector = << >> THEN <<sample>> ELSE <<Last(vector), sample>>

\* _traversalTimesStorage[configuration].emplace_back(iteration, time)
emplace_back(vector, sample) == Append(vector, sample)

\* The tuner measured the current configuration: addEvidence(time, iteration).
PTAddEvidence(time) ==
    /\ pt.pc = "tuning"
    /\ LET c == pt.currentConfig[2]
       IN  pt' = [pt EXCEPT !.traversalTimesStorage[c] = emplace_back(@, <<pt.iteration, time>>),
                            !.lastTest[c] = pt.tuningIterationsCounter,
                            !.phase.measured = @ \cup {c},
                            !.pc = "sampled"]
    /\ UNCHANGED ptrest

\* The tuner advances: tune(false) after a measurement, tune(true) when the
\* current configuration could not run.  One iteration has passed.
PTTune(currentInvalid) ==
    /\ pt.pc = IF currentInvalid THEN "tuning" ELSE "sampled"
    /\ LET p == [pt EXCEPT !.pc = "tuning",
                           !.iteration = @ + 1,
                           !.phase.invalid = IF currentInvalid
                                             THEN @ \cup {pt.currentConfig[2]} ELSE @]
       IN  \E q \in tune(p, currentInvalid) :
               pt' = IF q.pc = "tuning"
                     THEN [q EXCEPT !.phase.current = @ \cup {q.currentConfig[2]}]
                     ELSE q
    /\ UNCHANGED ptrest

NextPT ==
    \/ PTReset
    \/ \E time \in PTTimes : PTAddEvidence(time)
    \/ \E currentInvalid \in BOOLEAN : PTTune(currentInvalid)

SpecPT == InitPT /\ [][NextPT]_vars

\* A phase of the object has ended with tune returning false, and predictions
\* were made at its start.
PredictedPhaseEnded ==
    /\ pt # << >>
    /\ pt.phase # << >>
    /\ pt.pc = "done"
    /\ pt.phase.predicted

\* The configurations whose last evidence lies more than
\* maxTuningIterationsWithoutTest completed phases back at the start of the phase.
Due ==
    { c \in pt.searchSpace :
        pt.phase.completed - pt.phase.lastTest[c] > maxTuningIterationsWithoutTest }

\* C8: in a tuning phase in which predictions are made, every configuration c
\* with (completed phases - last phase in which c received evidence) >
\* maxTuningPhasesWithoutTest has been the current configuration during that
\* phase by the time tune returns false.
C8_Retest == PredictedPhaseEnded => Due \subseteq pt.phase.current

\* A phase with predictions has ended in which a configuration outside the range
\* of the best prediction was tested only because it was too long untested.
C8_Witness ==
    /\ PredictedPhaseEnded
    /\ \E c \in Due :
          /\ c \in pt.tooLongNotTestedSearchSpace
          /\ c \notin pt.optimalSearchSpace
          /\ c \in pt.phase.current
          /\ c \in pt.phase.measured

\* m * a as a natural number, without the reduction modulo 2^64: nine bytes.
RECURSIVE TimesExact(_, _, _, _)
TimesExact(a, m, j, carry) ==
    IF j > 8 THEN <<carry>>
    ELSE LET s == a[j] * m + carry
         IN  <<s % 256>> \o TimesExact(a, m, j + 1, s \div 256)

\* pred / bestPred <= 1.2 over the rationals: 5 * pred <= 6 * bestPred.
RatioWithinRange(pred, bestPred) ==
    ~LessFrom(TimesExact(bestPred, 6, 1, 0), TimesExact(pred, 5, 1, 0), 9)

\* The smallest prediction made at the start of the phase.
BestPrediction ==
    pt.phase.predictions[CHOOSE c \in getOptimum(pt.phase.predictions) : TRUE]

\* C9: in a phase where predictions are made, the set of configurations tested
\* in the phase equals exactly {c : pred(c) / bestPred <= relativeOptimumRange}
\* united with the configurations too long untested (here for a phase in which
\* no configuration was reported invalid).
C9_CandidateSet ==
    PredictedPhaseEnded /\ pt.phase.invalid = {} =>
        pt.phase.measured =
            { c \in pt.searchSpace :
                RatioWithinRange(pt.phase.predictions[c], BestPrediction) } \cup Due

\* A phase with predictions and without invalid configurations has ended in
\* which a configuration predicted at exactly 1.2 times the best prediction was
\* not tested.
C9_Witness ==
    /\ PredictedPhaseEnded
    /\ pt.phase.invalid = {}
    /\ \E c \in pt.searchSpace \ Due :
          /\ TimesExact(pt.phase.predictions[c], 5, 1, 0) = TimesExact(BestPrediction, 6, 1, 0)
          /\ c \notin pt.phase.measured
          /\ c \notin pt.phase.current

\* A tuning phase of the object has ended with tune returning false.
PhaseEnded ==
    /\ pt # << >>
    /\ pt.phase # << >>
    /\ pt.pc = "done"

\* The time a configuration measured in the phase: its last sample.
TimeInPhase(c) == Last(pt.traversalTimesStorage[c])[2]

\* C11: when a tuning phase ends (tune returns false), the current
\* configuration has the smallest time among all configurations that received
\* evidence during that phase, those tested only because they were too long
\* untested included.
C11_Selection ==
    PhaseEnded =>
        /\ pt.currentConfig[2] \in pt.phase.measured
        /\ \A c \in pt.phase.measured : TimeInPhase(pt.currentConfig[2]) <= TimeInPhase(c)

\* A phase has ended in which the only configuration near the best prediction
\* measured a larger time than a configuration tested because it was too long
\* untested, and the former is the current configuration.
C11_Witness ==
    /\ PredictedPhaseEnded
    /\ pt.phase.invalid = {}
    /\ Cardinality(pt.optimalSearchSpace) = 1
    /\ pt.currentConfig[2] \in pt.optimalSearchSpace
    /\ \E c \in pt.tooLongNotTestedSearchSpace \cap pt.phase.measured :
          TimeInPhase(c) < TimeInPhase(pt.currentConfig[2])

\* The candidate set tune is walking: _optimalSearchSpace, and the whole search
\* space in a phase without predictions.
Candidates(p) ==
    IF p.optimalSearchSpace = {} THEN p.searchSpace ELSE p.optimalSearchSpace

\* tune(true) is called and with it every configuration of the candidate set has
\* been reported invalid in this phase, none of them having been measured.
AllCandidatesInvalid ==
    /\ pt # << >>
    /\ pt.pc = "tuning"
    /\ pt'.iteration = pt.iteration + 1
    /\ Candidates(pt) \subseteq pt'.phase.invalid
    /\ Candidates(pt) \cap pt.phase.measured = {}

\* The phase continues with a new candidate set, free of invalid configurations
\* and inside the valid search space, and with its first configuration current.
Rederived(p) ==
    /\ p.pc = "tuning"
    /\ p.optimalSearchSpace # {}
    /\ p.optimalSearchSpace \cap p.phase.invalid = {}
    /\ p.optimalSearchSpace \subseteq p.validSearchSpace
    /\ p.validSearchSpace \cap p.phase.invalid = {}
    /\ p.currentConfig[1] = "optimalSearchSpace"
    /\ p.currentConfig[2] \in p.optimalSearchSpace
    /\ \A c \in p.optimalSearchSpace : p.currentConfig[2] <= c

minNumClusterPairsPerThread == 1000

\* The sizes cluster.getNeighbors() can have after a rebuild.
NeighborCounts == {0, 1, minNumClusterPairsPerThread, 2 * minNumClusterPairsPerThread}

\* A tower is the sequence of its clusters, a cluster the size of its neighbor
\* list.
RECURSIVE SeqsUpTo(_, _)
SeqsUpTo(S, n) ==
    IF n = 0 THEN { << >> }
    ELSE SeqsUpTo(S, n - 1) \cup
         { Append(q, x) : q \in { r \in SeqsUpTo(S, n - 1) : Len(r) = n - 1 }, x \in S }

TowerStates == SeqsUpTo(NeighborCounts, MaxClusters)

TowersStates(maxTowers) == { t \in SeqsUpTo(TowerStates, maxTowers) : Len(t) >= 1 }

\* The clusters of all towers in the order of the loops of fillClusterRanges:
\* <<currentTowerIndex, currentClusterInTower, getNeighbors().size()>>.
RECURSIVE ClusterSequence(_, _)
ClusterSequence(towers, t) ==
    IF t > Len(towers) THEN << >>
    ELSE [k \in 1..Len(towers[t]) |-> <<t - 1, k - 1, towers[t][k]>>]
         \o ClusterSequence(towers, t + 1)

RECURSIVE SumSeq(_, _)
SumSeq(seq, i) == IF i > Len(seq) THEN 0 ELSE seq[i] + SumSeq(seq, i + 1)

\* _clusterThreadPartition.resize(numThreads)
resize(partition, numThreads) ==
    [t \in 1..numThreads |->
        IF t <= Len(partition) THEN partition[t]
        ELSE [startTowerIndex |-> 0, startIndexInTower |-> 0, numClusters |-> 0]]

\* _clusterThreadPartition[currentThread] = {tower, cluster, 0}; with
\* currentThread >= size() the write is outside the vector.
writeStart(st, tower, cluster) ==
    IF st.currentThread < Len(st.partition)
    THEN [st EXCEPT !.partition[st.currentThread + 1] =
             [startTowerIndex |-> tower, startIndexInTower |-> cluster, numClusters |-> 0]]
    ELSE [st EXCEPT !.outOfBounds = TRUE]

\* _clusterThreadPartition[currentThread].numClusters = n
writeNumClusters(st, n) ==
    IF st.currentThread < Len(st.partition)
    THEN [st EXCEPT !.partition[st.currentThread + 1].numClusters = n]
    ELSE [st EXCEPT !.outOfBounds = TRUE]

\* The body of the loops of fillClusterRanges for the clusters from the i-th on.
RECURSIVE fillLoop(_, _, _, _)
fillLoop(clusters, i, numClusterPairsPerThread, st) ==
    IF i > Len(clusters) THEN st
    ELSE LET s1 == IF st.numClustersThisThread = 0
                   THEN writeStart(st, clusters[i][1], clusters[i][2]) ELSE st
             s2 == [s1 EXCEPT !.numClustersThisThread = @ + 1,
                              !.numClusterPairsTotal = @ + clusters[i][3]]
             s3 == IF s2.numClusterPairsTotal >= numClusterPairsPerThread * (s2.currentThread + 1)
                   THEN [writeNumClusters(s2, s2.numClustersThisThread)
                             EXCEPT !.numClustersThisThread = 0, !.currentThread = @ + 1]
                   ELSE s2
         IN  fillLoop(clusters, i + 1, numClusterPairsPerThread, s3)

\* VerletClusterLists::fillClusterRanges: the partition it leaves, and whether
\* it wrote outside the vector.
fillClusterRanges(towers, partition, numClusterPairsPerThread, numThreads) ==
    LET st0 == [partition |-> resize(partition, numThreads),
                currentThread |-> 0,
                numClustersThisThread |-> 0,
                numClusterPairsTotal |-> 0,
                outOfBounds |-> FALSE]
        st1 == fillLoop(ClusterSequence(towers, 1), 1, numClusterPairsPerThread, st0)
        st2 == IF st1.numClustersThisThread # 0
               THEN writeNumClusters(st1, st1.numClustersThisThread) ELSE st1
    IN  [st2 EXCEPT !.partition =
             [t \in 1..Len(@) |->
                 IF t - 1 > st2.currentThread THEN [@[t] EXCEPT !.numClusters = 0] ELSE @[t]]]

clamp(v, lo, hi) == IF v < lo THEN lo ELSE IF v > hi THEN hi ELSE v

\* VerletClusterLists::calculateClusterThreadPartition
calculateClusterThreadPartition(towers, partition, maxThreads) ==
    LET clusters == ClusterSequence(towers, 1)
        numClusterPairs == SumSeq([k \in 1..Len(clusters) |-> clusters[k][3]], 1)
        numThreads == clamp(numClusterPairs \div minNumClusterPairsPerThread, 1, maxThreads)
        numClusterPairsPerThread == numClusterPairs \div numThreads
    IN  fillClusterRanges(towers, partition, numClusterPairsPerThread, numThreads)

\* The container after construction: _towers{1}, an empty partition.
InitCT ==
    /\ \E maxThreads \in 1..MaxThreads :
          ct = [towers |-> << << >> >>,
                clusterThreadPartition |-> << >>,
                maxThreads |-> maxThreads,
                pc |-> "constructed"]
    /\ IdleC08
    /\ IdleMPI
    /\ IdleDS
    /\ IdlePV
    /\ IdleLP
    /\ IdlePT
    /\ IdleTW
    /\ IdleRL
    /\ IdleSL
    /\ IdleOT
    /\ IdleVL
    /\ IdleRC
    /\ IdleIP
    /\ IdlePA
    /\ IdleGP
    /\ IdleN3
    /\ IdleVC
    /\ IdleDT

\* VerletClusterLists::rebuildNeighborLists with a traversal that needs the
\* static partition: the builder leaves towers with clusters and neighbor lists,
\* then calculateClusterThreadPartition().
CTRebuildNeighborLists(towers) ==
    /\ ct.pc # "undefined"
    /\ LET st == calculateClusterThreadPartition(towers, ct.clusterThreadPartition, ct.maxThreads)
       IN  ct' = [ct EXCEPT !.towers = towers,
                            !.clusterThreadPartition = st.partition,
                            !.pc = IF st.outOfBounds THEN "undefined" ELSE "calculated"]
    /\ UNCHANGED ctrest

NextCT == \E towers \in TowersStates(MaxTowers) : CTRebuildNeighborLists(towers)

SpecCT == InitCT /\ [][NextCT]_vars

\* The clusters that the ranges before the t-th one hold.
RECURSIVE ClustersBefore(_, _)
ClustersBefore(partition, t) ==
    IF t <= 1 THEN 0
    ELSE partition[t - 1].numClusters + ClustersBefore(partition, t - 1)

\* The ranges, in thread order, cut the tower-major cluster sequence into
\* consecutive slices that cover it.
IsPartition(towers, partition) ==
    LET clusters == ClusterSequence(towers, 1)
    IN  /\ ClustersBefore(partition, Len(partition) + 1) = Len(clusters)
        /\ \A t \in 1..Len(partition) :
              partition[t].numClusters > 0 =>
                  /\ ClustersBefore(partition, t) < Len(clusters)
                  /\ partition[t].startTowerIndex = clusters[ClustersBefore(partition, t) + 1][1]
                  /\ partition[t].startIndexInTower = clusters[ClustersBefore(partition, t) + 1][2]

\* C13: after every calculateClusterThreadPartition, repeated rebuilds
\* included, the ranges of _clusterThreadPartition in thread order are
\* contiguous, pairwise disjoint slices of the tower-major cluster sequence,
\* their numClusters sum to the number of clusters, and every cluster belongs to
\* exactly one range.
C13_ClusterThreadPartition ==
    ct # << >> /\ ct.pc # "constructed" =>
        IsPartition(ct.towers, ct.clusterThreadPartition)

\* A rebuild that wrote only inside the vector has left ranges that are no
\* partition of the clusters.
C13_Witness ==
    /\ ct # << >>
    /\ ct.pc = "calculated"
    /\ ~IsPartition(ct.towers, ct.clusterThreadPartition)

(***************************************************************************)
(* ClusterTower: the particles of one tower of the xy-grid, grouped into   *)
(* clusters of clusterSize particles.                                      *)
(*                                                                         *)
(* A particle is [r |-> <<x, y, z>>, id |-> n]; the particles a caller     *)
(* adds have the ids 1, 2, ... in the order they were added.  A cluster is *)
(* the pointer its constructor was given, kept as the offset of its first  *)
(* particle in _particles.                                                 *)
(***************************************************************************)
MaxTowerParticles == 5

\* The added particles have z in 0 .. MaxTowerZ.
MaxTowerZ == 1

clusterSize == 4

\* std::numeric_limits<double>::max(), larger than every coordinate here.
DBL_MAX == 1000000000

\* The prototype of a dummy particle: position, (velocity,) id.
dummy == [r |-> <<DBL_MAX, DBL_MAX, DBL_MAX>>, id |-> 0]

\* The orders of the positions S of a vector that are ascending in one
\* coordinate.
RECURSIVE Ascending(_, _, _)
Ascending(particles, dim, S) ==
    IF S = {} THEN { << >> }
    ELSE UNION { { <<x>> \o q : q \in Ascending(particles, dim, S \ {x}) } :
                 x \in { m \in S : \A n \in S :
                            particles[m].r[dim + 1] <= particles[n].r[dim + 1] } }

\* FullParticleCell::sortByDim: ascending in one coordinate; std::sort leaves
\* the order of particles with equal coordinates open.
sortByDim(particles, dim) ==
    { [k \in 1 .. Len(particles) |-> particles[o[k]]] :
        o \in Ascending(particles, dim, 1 .. Len(particles)) }

getNumDummyParticles(tower) == tower.numDummyParticles

getNumActualParticles(tower) == Len(tower.particles) - tower.numDummyParticles

getNumClusters(tower) == Len(tower.clusters)

\* Cluster::at on the cluster that starts at an offset of _particles.
at(cluster, index) == cluster + index + 1

RECURSIVE addCopies(_, _, _)
addCopies(particles, lastParticle, n) ==
    IF n = 0 THEN particles
    ELSE addCopies(Append(particles, lastParticle), lastParticle, n - 1)

\* generateClusters with a last cluster that is padded even when it is full.
generateClustersAlwaysPadded(tower) ==
    IF getNumActualParticles(tower) > 0
    THEN { LET sizeLastCluster == Len(sorted) % clusterSize
               numDummyParticles == clusterSize - sizeLastCluster
               padded == addCopies(sorted, sorted[Len(sorted)], numDummyParticles)
               numClusters == Len(padded) \div clusterSize
           IN  [tower EXCEPT
                  !.particles = padded,
                  !.numDummyParticles = numDummyParticles,
                  !.clusters = tower.clusters \o
                      [index \in 1 .. numClusters |-> clusterSize * (index - 1)]] :
           sorted \in sortByDim(tower.particles, 2) }
    ELSE { tower }

\* ClusterTower::generateClusters: the towers it can leave.
generateClusters(tower) ==
    IF getNumActualParticles(tower) > 0
    THEN { LET sizeLastCluster == Len(sorted) % clusterSize
               numDummyParticles ==
                   IF sizeLastCluster # 0 THEN clusterSize - sizeLastCluster ELSE 0
               padded == addCopies(sorted, sorted[Len(sorted)], numDummyParticles)
               numClusters == Len(padded) \div clusterSize
           IN  [tower EXCEPT
                  !.particles = padded,
                  !.numDummyParticles = numDummyParticles,
                  !.clusters = tower.clusters \o
                      [index \in 1 .. numClusters |-> clusterSize * (index - 1)]] :
           sorted \in sortByDim(tower.particles, 2) }
    ELSE { tower }

RECURSIVE fillLoopDummies(_, _, _, _, _)
fillLoopDummies(particles, lastCluster, index, tower, position) ==
    IF index > tower.numDummyParticles THEN particles
    ELSE fillLoopDummies(
             [particles EXCEPT ![at(lastCluster, clusterSize - index)] =
                  [dummy EXCEPT !.r = position[index]]],
             lastCluster, index + 1, tower, position)

\* fillUpWithDummyParticles without the setR of its loop.
fillUpWithPrototypes(tower, dummyStartX, dummyDistZ) ==
    LET lastCluster == tower.clusters[getNumClusters(tower)]
    IN  [tower EXCEPT !.particles =
            fillLoopDummies(tower.particles, lastCluster, 1, tower,
                            [index \in 1 .. clusterSize |-> dummy.r])]

\* ClusterTower::fillUpWithDummyParticles, on a tower that has a cluster.
fillUpWithDummyParticles(tower, dummyStartX, dummyDistZ) ==
    LET lastCluster == tower.clusters[getNumClusters(tower)]
    IN  [tower EXCEPT !.particles =
            fillLoopDummies(tower.particles, lastCluster, 1, tower,
                            [index \in 1 .. clusterSize |->
                                <<dummyStartX, 0, dummyDistZ * index>>])]

\* ClusterTower::collectAllActualParticles: _particles after the resize.
collectAllActualParticles(tower) ==
    SubSeq(tower.particles, 1, getNumActualParticles(tower))

\* ClusterTower::ClusterTower
InitTW ==
    /\ tw = [particles |-> << >>, clusters |-> << >>, numDummyParticles |-> 0,
             pc |-> "cleared", added |-> << >>, dummyStartX |-> 0, dummyDistZ |-> 0,
             collected |-> << >>]
    /\ IdleC08
    /\ IdleMPI
    /\ IdleDS
    /\ IdlePV
    /\ IdleLP
    /\ IdlePT
    /\ IdleCT
    /\ IdleRL
    /\ IdleSL
    /\ IdleOT
    /\ IdleVL
    /\ IdleRC
    /\ IdleIP
    /\ IdlePA
    /\ IdleGP
    /\ IdleN3
    /\ IdleVC
    /\ IdleDT

\* ClusterTower::clear
TWClear ==
    /\ tw.pc # "undefined"
    /\ tw' = [tw EXCEPT !.clusters = << >>, !.particles = << >>,
                        !.numDummyParticles = 0,
                        !.pc = "cleared", !.added = << >>,
                        !.dummyStartX = 0, !.dummyDistZ = 0, !.collected = << >>]
    /\ UNCHANGED twrest

\* ClusterTower::addParticle, called as its documentation asks: not between
\* generateClusters and clear.
TWAddParticle(z) ==
    /\ tw.pc = "cleared"
    /\ Len(tw.particles) < MaxTowerParticles
    /\ LET particle == [r |-> <<0, 0, z>>, id |-> Len(tw.particles) + 1]
       IN  tw' = [tw EXCEPT !.particles = Append(@, particle),
                            !.added = Append(@, particle)]
    /\ UNCHANGED twrest

TWGenerateClusters ==
    /\ tw.pc = "cleared"
    /\ \E tower \in generateClusters(tw) : tw' = [tower EXCEPT !.pc = "generated"]
    /\ UNCHANGED twrest

\* fillUpWithDummyParticles binds a reference to _clusters[getNumClusters() - 1]
\* first; on a tower without clusters that is an access out of the bounds of
\* an empty vector, which either goes unnoticed (the loop does not run) or not.
TWFillUpWithDummyParticles(dummyStartX, dummyDistZ) ==
    /\ tw.pc = "generated"
    /\ IF getNumClusters(tw) = 0
       THEN \E outcome \in {"filled", "undefined"} :
               tw' = [tw EXCEPT !.pc = outcome,
                                !.dummyStartX = dummyStartX, !.dummyDistZ = dummyDistZ]
       ELSE tw' = [fillUpWithDummyParticles(tw, dummyStartX, dummyDistZ) EXCEPT
                      !.pc = "filled",
                      !.dummyStartX = dummyStartX, !.dummyDistZ = dummyDistZ]
    /\ UNCHANGED twrest

\* collectAllActualParticles on a filled tower; clear has to be called next.
TWCollectAllActualParticles ==
    /\ tw.pc = "filled"
    /\ tw' = [tw EXCEPT !.particles = collectAllActualParticles(tw),
                        !.collected = collectAllActualParticles(tw),
                        !.pc = "collected"]
    /\ UNCHANGED twrest

NextTW ==
    \/ TWClear
    \/ \E z \in 0 .. MaxTowerZ : TWAddParticle(z)
    \/ TWGenerateClusters
    \/ \E dummyStartX \in MaxTowerZ + 1 .. MaxTowerZ + 2, dummyDistZ \in 1 .. 2 :
          TWFillUpWithDummyParticles(dummyStartX, dummyDistZ)
    \/ TWCollectAllActualParticles

SpecTW == InitTW /\ [][NextTW]_vars

\* addParticle between generateClusters and clear, which the documentation
\* of the class warns of.
TWAddParticleAnyTime(z) ==
    /\ tw.pc \in {"generated", "misused"}
    /\ Len(tw.particles) < MaxTowerParticles
    /\ LET particle == [r |-> <<0, 0, z>>, id |-> Len(tw.added) + 1]
       IN  tw' = [tw EXCEPT !.particles = Append(@, particle),
                            !.added = Append(@, particle),
                            !.pc = "misused"]
    /\ UNCHANGED twrest

\* generateClusters on a tower that was not cleared since the last
\* generateClusters.
TWGenerateClustersAnyTime ==
    /\ tw.pc \in {"generated", "misused"}
    /\ Len(tw.particles) <= MaxTowerParticles
    /\ getNumClusters(tw) * clusterSize <= MaxTowerParticles
    /\ \E tower \in generateClusters(tw) : tw' = [tower EXCEPT !.pc = "misused"]
    /\ UNCHANGED twrest

\* The calls of the tower in any order.
NextTWAnySequence ==
    \/ NextTW
    \/ \E z \in 0 .. MaxTowerZ : TWAddParticleAnyTime(z)
    \/ TWGenerateClustersAnyTime

SpecTWAnySequence == InitTW /\ [][NextTWAnySequence]_vars

\* The number of addParticle calls since the last clear.
NumAdded == Len(tw.added)

\* The stored particles from..to are the added particles, each once.
SameParticles(from, to) ==
    /\ to - from + 1 = NumAdded
    /\ \A k \in 1 .. NumAdded : \E i \in from .. to : tw.particles[i] = tw.added[k]

\* C14: after clear, N >= 1 calls of addParticle and generateClusters, the
\* tower holds ceil(N/4) clusters that start at the multiples of 4, its number
\* of dummy particles is (4 - N mod 4) mod 4, its number of actual particles
\* is N, the first N stored particles are the added ones in ascending z, and
\* every padding entry lies in the last cluster.
C14_Padding ==
    (tw # << >> /\ tw.pc = "generated" /\ NumAdded >= 1) =>
        /\ getNumClusters(tw) = (NumAdded + clusterSize - 1) \div clusterSize
        /\ \A k \in 1 .. getNumClusters(tw) : tw.clusters[k] = clusterSize * (k - 1)
        /\ Len(tw.particles) = clusterSize * getNumClusters(tw)
        /\ getNumDummyParticles(tw) = (clusterSize - (NumAdded % clusterSize)) % clusterSize
        /\ getNumActualParticles(tw) = NumAdded
        /\ SameParticles(1, NumAdded)
        /\ \A i, j \in 1 .. NumAdded :
              i < j => tw.particles[i].r[3] <= tw.particles[j].r[3]
        /\ \A i \in NumAdded + 1 .. Len(tw.particles) :
              i > tw.clusters[getNumClusters(tw)]

\* A tower of two clusters, the second one padded.
C14_Witness ==
    /\ tw # << >>
    /\ tw.pc = "generated"
    /\ NumAdded = clusterSize + 1
    /\ getNumDummyParticles(tw) = clusterSize - 1
    /\ \E i \in 1 .. NumAdded : tw.added[i].r[3] > tw.added[NumAdded].r[3]

\* The dummies of a filled tower: the last _numDummyParticles entries of the
\* last cluster, counted from its end.
DummyAt(index) == tw.particles[at(tw.clusters[getNumClusters(tw)], clusterSize - index)]

Filled == tw # << >> /\ tw.pc = "filled" /\ getNumClusters(tw) > 0

\* C15 as stated: after fillUpWithDummyParticles every dummy of the last
\* cluster carries the position {DBL_MAX, DBL_MAX, DBL_MAX}.
C15_Sentinel ==
    Filled => \A index \in 1 .. getNumDummyParticles(tw) : DummyAt(index).r = dummy.r

\* C15: after fillUpWithDummyParticles(dummyStartX, dummyDistZ) the dummy
\* number index from the end of the last cluster has the id 0 and the
\* position {dummyStartX, 0, dummyDistZ * index}; the other particles are the
\* ones generateClusters left.
C15_DummyPositions ==
    Filled =>
        /\ \A index \in 1 .. getNumDummyParticles(tw) :
              DummyAt(index) =
                  [r |-> <<tw.dummyStartX, 0, tw.dummyDistZ * index>>, id |-> 0]
        /\ SameParticles(1, NumAdded)
        /\ getNumActualParticles(tw) = NumAdded

\* A filled tower whose last cluster holds two dummies.
C15_Witness ==
    /\ Filled
    /\ getNumDummyParticles(tw) = 2
    /\ DummyAt(2).r = <<tw.dummyStartX, 0, tw.dummyDistZ * 2>>
    /\ tw.dummyDistZ = 2

(***************************************************************************)
(* ReferenceLinkedCells: the re-insertion loop of updateContainer, run by  *)
(* every thread of the parallel region on its own myInvalidParticles.      *)
(*                                                                         *)
(* A particle is [id |-> n, cell |-> c], c the cell that contains its      *)
(* position.  A reference is the address of an element of the central      *)
(* vector, <<buffer, index>>: a reallocation moves the vector to a new     *)
(* buffer.  ParticleVector is not part of the sources: its push_back holds *)
(* a lock, sets the dirty flag and the dirty index to 0 when the vector    *)
(* has to reallocate, and markAsClean resets the flag and moves the dirty  *)
(* index to the end.                                                       *)
(***************************************************************************)
MaxInserts == 1

MaxLinkedCells == 2

RLThreads == 1 .. MaxThreads

\* ParticleVector::push_back
push_back(list, value) ==
    LET reallocate == list.capacity = Len(list.particles)
        nowDirty == list.dirty \/ reallocate
    IN  [particles |-> Append(list.particles, value),
         capacity |-> IF reallocate THEN 2 * list.capacity + 1 ELSE list.capacity,
         buffer |-> IF reallocate THEN list.buffer + 1 ELSE list.buffer,
         dirty |-> nowDirty,
         dirtyIndex |-> IF nowDirty THEN 0 ELSE list.dirtyIndex]

\* ParticleVector::markAsClean
markAsClean(list) ==
    [list EXCEPT !.dirty = FALSE, !.dirtyIndex = Len(list.particles)]

\* ParticleVector::beginDirty, endDirty: iterators into the current buffer.
beginDirty(list) == <<list.buffer, list.dirtyIndex>>

endDirty(list) == <<list.buffer, Len(list.particles)>>

\* The particles a thread re-inserts: each one in some cell, with its own id.
RECURSIVE Inserts(_, _)
Inserts(firstId, n) ==
    IF n = 0 THEN { << >> }
    ELSE Inserts(firstId, n - 1) \cup
         { Append(q, [id |-> firstId + n - 1, cell |-> c]) :
             q \in { r \in Inserts(firstId, n - 1) : Len(r) = n - 1 },
             c \in 1 .. MaxLinkedCells }

\* The container between the two loops of updateContainer: the particles that
\* stayed are referenced by their cells, the vector is clean, and every thread
\* holds the particles it collected.
InitRL ==
    /\ \E stayed \in Inserts(1, 1),
          spare \in 0 .. MaxThreads,
          todo \in [RLThreads -> UNION { Inserts(2 + (t - 1) * MaxInserts, MaxInserts) :
                                          t \in RLThreads }] :
          /\ \A t \in RLThreads : todo[t] \in Inserts(2 + (t - 1) * MaxInserts, MaxInserts)
          /\ rl = [particleList |-> [particles |-> stayed,
                                     capacity |-> Len(stayed) + spare,
                                     buffer |-> 0,
                                     dirty |-> FALSE,
                                     dirtyIndex |-> Len(stayed)],
                   cells |-> [c \in 1 .. MaxLinkedCells |->
                                IF stayed # << >> /\ stayed[1].cell = c
                                THEN << <<0, 0>> >> ELSE << >>],
                   myInvalidParticles |-> todo,
                   thread |-> [t \in RLThreads |->
                                 [pc |-> IF todo[t] = << >> THEN "done" ELSE "addParticle",
                                  it |-> <<0, 0>>]],
                   pc |-> "running"]
    /\ IdleC08
    /\ IdleMPI
    /\ IdleDS
    /\ IdlePV
    /\ IdleLP
    /\ IdlePT
    /\ IdleCT
    /\ IdleTW
    /\ IdleSL
    /\ IdleOT
    /\ IdleVL
    /\ IdleRC
    /\ IdleIP
    /\ IdlePA
    /\ IdleGP
    /\ IdleN3
    /\ IdleVC
    /\ IdleDT

\* addParticleImpl, first statement: _particleList.push_back(pCopy).
RLPushBack(t) ==
    /\ rl.pc = "running"
    /\ rl.thread[t].pc = "addParticle"
    /\ rl' = [rl EXCEPT
                !.particleList = push_back(@, rl.myInvalidParticles[t][1]),
                !.myInvalidParticles[t] = Tail(@),
                !.thread[t].pc = "isDirty"]
    /\ UNCHANGED rlrest

\* updateDirtyParticleReferences: if the list is dirty, clear every cell; then
\* take beginDirty().
RLClearIfDirty(t) ==
    /\ rl.pc = "running"
    /\ rl.thread[t].pc = "isDirty"
    /\ rl' = [rl EXCEPT
                !.cells = IF rl.particleList.dirty
                          THEN [c \in 1 .. MaxLinkedCells |-> << >>] ELSE @,
                !.thread[t].pc = "loop",
                !.thread[t].it = beginDirty(rl.particleList)]
    /\ UNCHANGED rlrest

\* One round of the loop: the test it < endDirty(), and the body with it++.
\* An iterator into a buffer that another thread's push_back has released is
\* invalid, and using it is undefined.
RLLoop(t) ==
    /\ rl.pc = "running"
    /\ rl.thread[t].pc = "loop"
    /\ LET it == rl.thread[t].it
       IN  IF it[1] # rl.particleList.buffer
           THEN rl' = [rl EXCEPT !.pc = "undefined"]
           ELSE IF it[2] < endDirty(rl.particleList)[2]
           THEN LET cell == rl.particleList.particles[it[2] + 1].cell
                    address == it
                IN  rl' = [rl EXCEPT !.cells[cell] = Append(@, address),
                                     !.thread[t].it = <<it[1], it[2] + 1>>]
           ELSE rl' = [rl EXCEPT !.thread[t].pc = "markAsClean"]
    /\ UNCHANGED rlrest

\* _particleList.markAsClean(), the return of addParticleImpl and the step of
\* the loop over myInvalidParticles.
RLMarkAsClean(t) ==
    /\ rl.pc = "running"
    /\ rl.thread[t].pc = "markAsClean"
    /\ rl' = [rl EXCEPT
                !.particleList = markAsClean(@),
                !.thread[t].pc = IF rl.myInvalidParticles[t] = << >>
                                 THEN "done" ELSE "addParticle"]
    /\ UNCHANGED rlrest

NextRL ==
    \E t \in RLThreads :
        \/ RLPushBack(t)
        \/ RLClearIfDirty(t)
        \/ RLLoop(t)
        \/ RLMarkAsClean(t)

SpecRL == InitRL /\ [][NextRL]_vars

\* Every thread has left the parallel region.
RLFinished == rl # << >> /\ rl.pc = "running" /\ \A t \in RLThreads : rl.thread[t].pc = "done"

\* How often the cells hold a reference.
RLCount(address) ==
    Cardinality({ <<c, k>> \in (1 .. MaxLinkedCells) \X (1 .. 8) :
                    k <= Len(rl.cells[c]) /\ rl.cells[c][k] = address })

\* C16: once all inserting threads have finished, every particle of the
\* central vector is referenced exactly once, by the cell that contains it,
\* and the cells hold no other reference.
C16_AtomicRebuild ==
    RLFinished =>
        /\ \A i \in 1 .. Len(rl.particleList.particles) :
              /\ RLCount(<<rl.particleList.buffer, i - 1>>) = 1
              /\ \E k \in 1 .. Len(rl.cells[rl.particleList.particles[i].cell]) :
                    rl.cells[rl.particleList.particles[i].cell][k]
                        = <<rl.particleList.buffer, i - 1>>
        /\ \A c \in 1 .. MaxLinkedCells : \A k \in 1 .. Len(rl.cells[c]) :
              /\ rl.cells[c][k][1] = rl.particleList.buffer
              /\ rl.cells[c][k][2] < Len(rl.particleList.particles)

\* Every thread has inserted its particles into a vector that held one, and
\* a particle of the vector has no reference or more than one.
C16_Witness ==
    /\ RLFinished
    /\ Len(rl.particleList.particles) = 1 + MaxThreads * MaxInserts
    /\ \E i \in 1 .. Len(rl.particleList.particles) :
          RLCount(<<rl.particleList.buffer, i - 1>>) # 1

(***************************************************************************)
(* BalancedSlicedTraversal: one slab of layers per thread along the        *)
(* longest dimension, one lock per wall between consecutive slabs.         *)
(*                                                                         *)
(* traverseParticlePairs hands processBaseCell to slicedTraversal of the   *)
(* base class, which is not part of the sources; its locking follows the   *)
(* class documentation: a thread locks the wall to the previous slab, the  *)
(* first layer of its own slab, and lifts the lock when that layer is      *)
(* fully processed; the thread of the previous slab needs the same lock    *)
(* for its last layer, whose c08 blocks reach into the wall.               *)
(*                                                                         *)
(* A base cell is <<layer, y>>: its layer along the longest dimension and  *)
(* its place in the layer.  Its c08 block covers the layers layer and      *)
(* layer + 1 and the places y and y + 1.  Slab s (1 .. numSlices) holds    *)
(* the layers start[s] .. start[s + 1] - 1; lock s guards the wall between *)
(* the slabs s and s + 1.                                                  *)
(***************************************************************************)
MaxLayers == 4

MaxLayerCells == 2

\* The cuts of numLayers layers into slabs of at least one layer each.
SliceThicknesses(numLayers, numSlices) ==
    { q \in SeqsUpTo(1 .. numLayers, numSlices) :
        Len(q) = numSlices /\ SumSeq(q, 1) = numLayers }

firstLayer(thickness, slice) == SumSeq(SubSeq(thickness, 1, slice - 1), 1)

lastLayer(thickness, slice) == firstLayer(thickness, slice) + thickness[slice] - 1

\* slicedTraversal with locks on the wall to the previous slab only.
locksOfFirstLayer(thickness, slice, layer) ==
    IF slice > 1 /\ layer = firstLayer(thickness, slice) THEN {slice - 1} ELSE {}

\* The locks a thread holds while it processes a layer of its slab.
locksOfLayer(thickness, slice, layer) ==
    (IF slice > 1 /\ layer = firstLayer(thickness, slice) THEN {slice - 1} ELSE {})
    \cup (IF slice < Len(thickness) /\ layer = lastLayer(thickness, slice)
          THEN {slice} ELSE {})

\* The cells of the c08 block of a base cell.
blockOf(baseCell) ==
    { <<baseCell[1] + dx, baseCell[2] + dy>> : dx \in 0 .. 1, dy \in 0 .. 1 }

\* The traversal as traverseParticlePairs starts its threads.
InitSL ==
    /\ \E numSlices \in 1 .. MaxThreads, numLayers \in 1 .. MaxLayers,
          layerCells \in 1 .. MaxLayerCells :
          /\ numSlices <= numLayers
          /\ \E thickness \in SliceThicknesses(numLayers, numSlices) :
                sl = [sliceThickness |-> thickness,
                      layerCells |-> layerCells,
                      locks |-> [w \in 1 .. numSlices - 1 |-> 0],
                      thread |-> [t \in 1 .. numSlices |->
                                    [layer |-> firstLayer(thickness, t), y |-> 0,
                                     pc |-> "lock"]]]
    /\ IdleC08
    /\ IdleMPI
    /\ IdleDS
    /\ IdlePV
    /\ IdleLP
    /\ IdlePT
    /\ IdleCT
    /\ IdleTW
    /\ IdleRL
    /\ IdleOT
    /\ IdleVL
    /\ IdleRC
    /\ IdleIP
    /\ IdlePA
    /\ IdleGP
    /\ IdleN3
    /\ IdleVC
    /\ IdleDT

\* The locks of its layer the thread does not hold yet.
SLMissing(t) ==
    { w \in locksOfLayer(sl.sliceThickness, t, sl.thread[t].layer) : sl.locks[w] # t }

\* The thread takes the next lock of the layer it is about to process; it
\* waits while another thread holds it.
SLLock(t) ==
    /\ t \in DOMAIN sl.thread
    /\ sl.thread[t].pc = "lock"
    /\ SLMissing(t) # {}
    /\ LET w == CHOOSE v \in SLMissing(t) : \A u \in SLMissing(t) : v <= u
       IN  /\ sl.locks[w] = 0
           /\ sl' = [sl EXCEPT !.locks[w] = t]
    /\ UNCHANGED slrest

\* The loop body: the thread enters processBaseCell on the next base cell.
SLProcessBaseCell(t) ==
    /\ t \in DOMAIN sl.thread
    /\ sl.thread[t].pc = "lock"
    /\ SLMissing(t) = {}
    /\ sl' = [sl EXCEPT !.thread[t].pc = "processBaseCell"]
    /\ UNCHANGED slrest

\* processBaseCell returns; after the last base cell of a layer the thread
\* goes on to lift the locks of the layer.
SLReturn(t) ==
    /\ t \in DOMAIN sl.thread
    /\ sl.thread[t].pc = "processBaseCell"
    /\ sl' = IF sl.thread[t].y + 1 < sl.layerCells
             THEN [sl EXCEPT !.thread[t].y = @ + 1, !.thread[t].pc = "lock"]
             ELSE [sl EXCEPT !.thread[t].pc = "unlock"]
    /\ UNCHANGED slrest

\* The layer is fully processed: the thread lifts its locks and moves to the
\* next layer of its slab.
SLUnlock(t) ==
    /\ t \in DOMAIN sl.thread
    /\ sl.thread[t].pc = "unlock"
    /\ sl' = [sl EXCEPT
                !.locks = [w \in DOMAIN sl.locks |-> IF sl.locks[w] = t THEN 0 ELSE sl.locks[w]],
                !.thread[t].layer = @ + 1,
                !.thread[t].y = 0,
                !.thread[t].pc = IF sl.thread[t].layer = lastLayer(sl.sliceThickness, t)
                                 THEN "done" ELSE "lock"]
    /\ UNCHANGED slrest

NextSL ==
    \E t \in 1 .. MaxThreads :
        \/ SLLock(t)
        \/ SLProcessBaseCell(t)
        \/ SLReturn(t)
        \/ SLUnlock(t)

SpecSL == InitSL /\ [][NextSL]_vars

SLSlices == IF sl = << >> THEN {} ELSE DOMAIN sl.thread

\* The base cell a thread is at.
SLBaseCell(t) == <<sl.thread[t].layer, sl.thread[t].y>>

\* The thread is between the first base cell of a layer and the end of the
\* layer.
SLInLayer(t) ==
    \/ sl.thread[t].pc \in {"processBaseCell", "unlock"}
    \/ sl.thread[t].pc = "lock" /\ sl.thread[t].y > 0

SLHeld(t) == { w \in DOMAIN sl.locks : sl.locks[w] = t }

\* C17: no two threads are in processBaseCell at the same time on base cells
\* whose c08 blocks share a cell; a thread holds the lock of a wall from
\* before the first base cell of the wall layer, and of the layer before it,
\* until that layer is fully processed; and a thread holds no lock while it
\* processes an interior layer of its slab.
C17_SlicedExclusion ==
    /\ \A t1, t2 \in SLSlices :
          (/\ t1 # t2
           /\ sl.thread[t1].pc = "processBaseCell"
           /\ sl.thread[t2].pc = "processBaseCell")
          => blockOf(SLBaseCell(t1)) \cap blockOf(SLBaseCell(t2)) = {}
    /\ \A t \in SLSlices :
          SLInLayer(t) =>
              /\ (t > 1 /\ sl.thread[t].layer = firstLayer(sl.sliceThickness, t))
                    => t - 1 \in SLHeld(t)
              /\ (t < Len(sl.sliceThickness)
                    /\ sl.thread[t].layer = lastLayer(sl.sliceThickness, t))
                    => t \in SLHeld(t)
              /\ (/\ ~(t > 1 /\ sl.thread[t].layer = firstLayer(sl.sliceThickness, t))
                  /\ ~(t < Len(sl.sliceThickness)
                         /\ sl.thread[t].layer = lastLayer(sl.sliceThickness, t)))
                    => SLHeld(t) = {}

\* One thread processes the last layer of its slab under the lock of the wall,
\* the thread of the next slab waits for that lock, and a third base cell of
\* an interior layer could run beside them: here the first thread is past an
\* interior layer of its own.
C17_Witness ==
    /\ sl # << >>
    /\ Len(sl.sliceThickness) >= 2
    /\ sl.sliceThickness[1] >= 2
    /\ sl.thread[1].pc = "processBaseCell"
    /\ sl.thread[1].layer = lastLayer(sl.sliceThickness, 1)
    /\ sl.locks[1] = 1
    /\ sl.thread[2].pc = "lock"
    /\ sl.thread[2].layer = firstLayer(sl.sliceThickness, 2)
    /\ sl.thread[2].y = 0

(***************************************************************************)
(* OTC18Traversal::traverseParticlePairs: a parallel loop over the owned   *)
(* leaves of the octree.                                                   *)
(*                                                                         *)
(* The owned tree is split evenly down to some depth; its leaves have the  *)
(* ids 0 .. numOwned - 1 in the order of appendAllLeaves, the digits of an *)
(* id to the base 8 being the octants on the way to the leaf.  The halo    *)
(* tree has one or two leaves, with the ids from numOwned on.              *)
(* OctreeLeafNode is not part of the sources: the leaves a leaf reports as *)
(* its neighbors are either none, as getNeighborLeaves() of the node       *)
(* interface returns, or the leaves whose boxes touch its box.  With       *)
(* useNewton3 the cell functor writes both cells of a pair.                *)
(***************************************************************************)
MaxOctreeDepth == 1

RECURSIVE Pow8(_)
Pow8(d) == IF d = 0 THEN 1 ELSE 8 * Pow8(d - 1)

RECURSIVE Pow2(_)
Pow2(d) == IF d = 0 THEN 1 ELSE 2 * Pow2(d - 1)

\* The position of a leaf in the grid of the leaves of its depth, along one
\* axis (0, 1, 2).
RECURSIVE leafCoordinate(_, _, _)
leafCoordinate(id, depth, axis) ==
    IF depth = 0 THEN 0
    ELSE 2 * leafCoordinate(id \div 8, depth - 1, axis)
         + (((id % 8) \div (IF axis = 0 THEN 1 ELSE IF axis = 1 THEN 2 ELSE 4)) % 2)

touching(a, b, depth) ==
    /\ a # b
    /\ \A axis \in 0 .. 2 :
          LET d == leafCoordinate(a, depth, axis) - leafCoordinate(b, depth, axis)
          IN  d \in {-1, 0, 1}

\* leaf->getNeighborLeaves()
getNeighborLeaves(tree, leaf) ==
    IF tree.neighbors = "none" THEN {}
    ELSE { n \in 0 .. tree.numOwned - 1 : touching(leaf, n, tree.depth) }

\* haloWrapper->getLeavesInRange(min, max): the first halo leaf is in range of
\* every owned leaf, a second one lies beyond the upper face of the first axis
\* and is in range of the owned leaves at that face.
getLeavesInRange(tree, leaf) ==
    { tree.numOwned }
    \cup (IF tree.numHalo > 1 /\ leafCoordinate(leaf, tree.depth, 0) = Pow2(tree.depth) - 1
          THEN { tree.numOwned + 1 } ELSE {})

\* A set of ids as the sequence the loop walks it in.
RECURSIVE InOrder(_, _)
InOrder(S, order) ==
    IF S = {} THEN << >>
    ELSE LET x == IF order = "ascending"
                  THEN CHOOSE v \in S : \A u \in S : v <= u
                  ELSE CHOOSE v \in S : \A u \in S : v >= u
         IN  <<x>> \o InOrder(S \ {x}, order)

\* The round of the loop without the comparison of the ids: every neighbor
\* and every halo leaf in range is processed as a pair.
callsOfAnyId(tree, leaf) ==
    LET uniqueNeighboringLeaves == InOrder(getNeighborLeaves(tree, leaf), tree.order)
        inRange == InOrder(getLeavesInRange(tree, leaf), tree.order)
    IN  << {leaf} >>
        \o [k \in 1 .. Len(uniqueNeighboringLeaves) |-> {leaf, uniqueNeighboringLeaves[k]}]
        \o [k \in 1 .. Len(inRange) |-> {leaf, inRange[k]}]

\* The calls of the cell functor in one round of the loop, each given by the
\* leaves it writes: processCell(leaf), then processCellPair(leaf, neighbor)
\* for the neighbors and the halo leaves in range with a larger id.
callsOf(tree, leaf) ==
    LET neighbors == { n \in getNeighborLeaves(tree, leaf) : leaf < n }
        haloNeighbors == { n \in getLeavesInRange(tree, leaf) : leaf < n }
        uniqueNeighboringLeaves == InOrder(neighbors, tree.order)
        inRange == InOrder(haloNeighbors, tree.order)
    IN  << {leaf} >>
        \o [k \in 1 .. Len(uniqueNeighboringLeaves) |-> {leaf, uniqueNeighboringLeaves[k]}]
        \o [k \in 1 .. Len(inRange) |-> {leaf, inRange[k]}]

\* The rounds of the parallel loop a thread runs: the loop has no schedule
\* clause, and the threads get the rounds in consecutive chunks.
firstRound(numOwned, numThreads, t) ==
    LET chunk == (numOwned + numThreads - 1) \div numThreads
    IN  IF (t - 1) * chunk < numOwned THEN (t - 1) * chunk ELSE numOwned

endRound(numOwned, numThreads, t) ==
    LET chunk == (numOwned + numThreads - 1) \div numThreads
    IN  IF t * chunk < numOwned THEN t * chunk ELSE numOwned

\* The traversal after initTraversal, at the start of the parallel loop.
InitOT ==
    /\ \E depth \in 0 .. MaxOctreeDepth, numThreads \in 1 .. MaxThreads,
          neighbors \in {"none", "touching"}, order \in {"ascending", "descending"},
          numHalo \in 1 .. 2 :
          ot = [depth |-> depth,
                numOwned |-> Pow8(depth),
                numHalo |-> numHalo,
                neighbors |-> neighbors,
                order |-> order,
                numThreads |-> numThreads,
                thread |-> [t \in 1 .. numThreads |->
                              [i |-> firstRound(Pow8(depth), numThreads, t),
                               call |-> 1,
                               inCall |-> FALSE]]]
    /\ IdleC08
    /\ IdleMPI
    /\ IdleDS
    /\ IdlePV
    /\ IdleLP
    /\ IdlePT
    /\ IdleCT
    /\ IdleTW
    /\ IdleRL
    /\ IdleSL
    /\ IdleVL
    /\ IdleRC
    /\ IdleIP
    /\ IdlePA
    /\ IdleGP
    /\ IdleN3
    /\ IdleVC
    /\ IdleDT

\* The thread enters the next call of the cell functor of its round.
OTProcess(t) ==
    /\ t \in DOMAIN ot.thread
    /\ ot.thread[t].i < endRound(ot.numOwned, ot.numThreads, t)
    /\ ~ot.thread[t].inCall
    /\ ot' = [ot EXCEPT !.thread[t].inCall = TRUE]
    /\ UNCHANGED otrest

\* The call returns; after the last call of a round the thread goes on to its
\* next round.
OTReturn(t) ==
    /\ t \in DOMAIN ot.thread
    /\ ot.thread[t].inCall
    /\ ot' = IF ot.thread[t].call < Len(callsOf(ot, ot.thread[t].i))
             THEN [ot EXCEPT !.thread[t].inCall = FALSE, !.thread[t].call = @ + 1]
             ELSE [ot EXCEPT !.thread[t].inCall = FALSE, !.thread[t].call = 1,
                             !.thread[t].i = @ + 1]
    /\ UNCHANGED otrest

NextOT ==
    \E t \in 1 .. MaxThreads :
        \/ OTProcess(t)
        \/ OTReturn(t)

SpecOT == InitOT /\ [][NextOT]_vars

\* The leaves the call a thread is in writes.
OTWrites(t) ==
    IF ot.thread[t].inCall THEN callsOf(ot, ot.thread[t].i)[ot.thread[t].call] ELSE {}

\* C18: no leaf is written by the calls of two threads at the same time.
C18_SingleWriter ==
    ot # << >> =>
        \A t1, t2 \in DOMAIN ot.thread :
            t1 # t2 => OTWrites(t1) \cap OTWrites(t2) = {}

\* Two threads are in processCellPair at the same time, and both write the
\* halo leaf.
C18_Witness ==
    /\ ot # << >>
    /\ ot.numThreads >= 2
    /\ ot.neighbors = "none"
    /\ ot.numOwned \in OTWrites(1) \cap OTWrites(2)

\* The traversal run by one thread, as in a build without OpenMP.
InitOTSerial == InitOT /\ ot.numThreads = 1

SpecOTSerial == InitOTSerial /\ [][NextOT]_vars

\* The calls of the cell functor of one traverseParticlePairs: the calls of
\* the rounds of all owned leaves.
RECURSIVE callsUpTo(_, _)
callsUpTo(tree, n) ==
    IF n = 0 THEN << >> ELSE callsUpTo(tree, n - 1) \o callsOf(tree, n - 1)

ownedLeaves(tree) == 0 .. (tree.numOwned - 1)

haloLeaves(tree) == tree.numOwned .. (tree.numOwned + tree.numHalo - 1)

OTFinished ==
    \A t \in DOMAIN ot.thread : ot.thread[t].i = endRound(ot.numOwned, ot.numThreads, t)

\* C37: a finished traversal has processed every owned leaf by itself once,
\* every pair of owned leaves of which one is in the neighbor list of the
\* other once and in the round of the leaf with the smaller id, every pair of
\* an owned leaf and a halo leaf in its range once, and no pair of two halo
\* leaves.
C37_PairScheduling ==
    (ot # << >> /\ OTFinished) =>
        LET calls == callsUpTo(ot, ot.numOwned)
            timesProcessed(leaves) ==
                Cardinality({ k \in 1 .. Len(calls) : calls[k] = leaves })
            neighborsOf == [l \in ownedLeaves(ot) |-> getNeighborLeaves(ot, l)]
            roundOf == [l \in ownedLeaves(ot) |->
                          { callsOf(ot, l)[k] : k \in 1 .. Len(callsOf(ot, l)) }]
        IN  /\ \A l \in ownedLeaves(ot) : timesProcessed({l}) = 1
            /\ \A a, b \in ownedLeaves(ot) :
                   (a < b /\ (b \in neighborsOf[a] \/ a \in neighborsOf[b]))
                   => /\ timesProcessed({a, b}) = 1
                      /\ {a, b} \in roundOf[a]
            /\ \A l \in ownedLeaves(ot) : \A h \in getLeavesInRange(ot, l) :
                   timesProcessed({l, h}) = 1
            /\ \A h1, h2 \in haloLeaves(ot) : timesProcessed({h1, h2}) = 0

\* A finished traversal of eight owned leaves that touch each other and two
\* halo leaves, one of them out of the range of some owned leaves.
C37_Witness ==
    /\ ot # << >>
    /\ ot.depth = 1
    /\ ot.neighbors = "touching"
    /\ ot.numHalo = 2
    /\ \E l \in ownedLeaves(ot) : (ot.numOwned + 1) \notin getLeavesInRange(ot, l)
    /\ OTFinished

\* The particles of a sequence, each with the number of times it occurs.
Occurrences(particles) ==
    { <<x, Cardinality({ i \in 1 .. Len(particles) : particles[i] = x })>> :
        x \in { particles[i] : i \in 1 .. Len(particles) } }

\* The round trip of a tower used as its documentation asks: the dummies are
\* exactly the last entries of the last cluster, and the collected particles
\* are the added ones.
TWDummiesLast ==
    \A i \in 1 .. Len(tw.particles) :
        (tw.particles[i].id = dummy.id) <=>
            (i > clusterSize * getNumClusters(tw) - getNumDummyParticles(tw))

TWRoundTrip ==
    /\ Filled => TWDummiesLast
    /\ (tw # << >> /\ tw.pc = "collected")
           => Occurrences(tw.collected) = Occurrences(tw.added)

TWCountsAdded ==
    (tw # << >> /\ tw.pc \in {"cleared", "generated", "misused"})
        => getNumActualParticles(tw) = NumAdded

\* C38: clear, N calls of addParticle, generateClusters and
\* fillUpWithDummyParticles leave the dummies in exactly the last
\* getNumDummyParticles slots of the last cluster, collectAllActualParticles
\* then returns exactly the N added particles, and after any sequence of
\* addParticle, generateClusters and clear getNumActualParticles is the
\* number of particles added since the last clear.
C38_Lifecycle ==
    /\ tw # << >> => tw.pc # "undefined"
    /\ TWRoundTrip
    /\ TWCountsAdded

\* A second generateClusters without a clear in between has turned the
\* copies of the last particle into actual particles.
C38_Witness ==
    /\ tw # << >>
    /\ tw.pc = "misused"
    /\ NumAdded = 1
    /\ getNumActualParticles(tw) = clusterSize

(***************************************************************************)
(* VarVerletLists with VerletNeighborListAsBuild, as its tests use it: two *)
(* particles with the ids 1 and 2, a list build by iteratePairwise, moves  *)
(* by setR through an iterator, and checkNeighborListsAreValid.            *)
(*                                                                         *)
(* The container is not part of the sources.  Its list holds the pairs     *)
(* that are within cutoff + skin of each other when it is built, and the   *)
(* check asks that every pair within the cutoff now is in the list.        *)
(* Positions are points of a grid, distances are compared by their         *)
(* squares.                                                                *)
(***************************************************************************)
MaxVerletCoord == 3

MaxCutoff == 2

MaxSkin == 2

VerletParticles == {1, 2}

VerletPositions == (0 .. MaxVerletCoord) \X (0 .. 1)

distanceSquared(a, b) ==
    (a[1] - b[1]) * (a[1] - b[1]) + (a[2] - b[2]) * (a[2] - b[2])

\* A list build that leaves the skin out.
buildWithoutSkin(r, cutoff, skin) ==
    { pair \in { {a, b} : a, b \in VerletParticles } :
        /\ Cardinality(pair) = 2
        /\ \A a, b \in pair : distanceSquared(r[a], r[b]) <= cutoff * cutoff }

\* The pairs the build of the neighbor list stores: those within the
\* interaction length cutoff + skin.
buildNeighborList(r, cutoff, skin) ==
    { pair \in { {a, b} : a, b \in VerletParticles } :
        /\ Cardinality(pair) = 2
        /\ \A a, b \in pair :
              distanceSquared(r[a], r[b]) <= (cutoff + skin) * (cutoff + skin) }

\* checkNeighborListsAreValid: every pair within the cutoff is in the list.
checkNeighborListsAreValid(container) ==
    \A a, b \in VerletParticles :
        (a # b /\ distanceSquared(container.r[a], container.r[b])
                     <= container.cutoff * container.cutoff)
        => {a, b} \in container.list

\* The container after its construction and the addParticle calls of a test.
InitVL ==
    /\ \E cutoff \in 1 .. MaxCutoff, skin \in 0 .. MaxSkin,
          r \in [VerletParticles -> VerletPositions] :
          vl = [cutoff |-> cutoff, skin |-> skin, r |-> r,
                built |-> FALSE, rAtBuild |-> r, list |-> {}]
    /\ IdleC08
    /\ IdleMPI
    /\ IdleDS
    /\ IdlePV
    /\ IdleLP
    /\ IdlePT
    /\ IdleCT
    /\ IdleTW
    /\ IdleRL
    /\ IdleSL
    /\ IdleOT
    /\ IdleRC
    /\ IdleIP
    /\ IdlePA
    /\ IdleGP
    /\ IdleN3
    /\ IdleVC
    /\ IdleDT

\* iteratePairwise on a container whose list has to be built.
VLIteratePairwise ==
    /\ vl' = [vl EXCEPT !.built = TRUE,
                        !.rAtBuild = vl.r,
                        !.list = buildNeighborList(vl.r, vl.cutoff, vl.skin)]
    /\ UNCHANGED vlrest

\* iter->setR(position) on the particle with an id.
VLSetR(id, position) ==
    /\ vl.built
    /\ vl' = [vl EXCEPT !.r[id] = position]
    /\ UNCHANGED vlrest

NextVL ==
    \/ VLIteratePairwise
    \/ \E id \in VerletParticles, position \in VerletPositions : VLSetR(id, position)

SpecVL == InitVL /\ [][NextVL]_vars

\* No particle is further than skin / 2 from its position at the build.
SmallDrift ==
    \A q \in VerletParticles :
        4 * distanceSquared(vl.r[q], vl.rAtBuild[q]) <= vl.skin * vl.skin

MaxStored == 2

\* updateDirtyParticleReferences that walks the whole vector.
RECURSIVE addParticleReferences(_, _, _)
addParticleReferences(cells, list, index) ==
    IF index >= endDirty(list)[2] THEN cells
    ELSE LET cell == list.particles[index + 1].cell
             address == <<list.buffer, index>>
         IN  addParticleReferences([cells EXCEPT ![cell] = Append(@, address)],
                                   list, index + 1)

updateAllParticleReferences(container) ==
    [container EXCEPT
        !.cells = addParticleReferences(
                      IF container.particleList.dirty
                      THEN [c \in DOMAIN container.cells |-> << >>]
                      ELSE container.cells,
                      container.particleList, 0),
        !.particleList = markAsClean(container.particleList)]

\* ReferenceLinkedCells::updateDirtyParticleReferences
updateDirtyParticleReferences(container) ==
    [container EXCEPT
        !.cells = addParticleReferences(
                      IF container.particleList.dirty
                      THEN [c \in DOMAIN container.cells |-> << >>]
                      ELSE container.cells,
                      container.particleList,
                      beginDirty(container.particleList)[2]),
        !.particleList = markAsClean(container.particleList)]

\* ReferenceLinkedCells::ReferenceLinkedCells: a row of cells, the first and
\* the last of them halo cells and those between them cells of the box; the
\* position of a particle is the cell it is in, and the skin is one cell.
\* rebuilds counts, up to two,
\* the rebuilds since a particle was last added or moved; returned keeps
\* what the last call returned; deleted keeps the ids of the halo particles
\* that deleteHaloParticles has deleted.
InitRC ==
    /\ rc = [particleList |-> [particles |-> << >>, capacity |-> 0, buffer |-> 0,
                               dirty |-> FALSE, dirtyIndex |-> 0],
             cells |-> [c \in 1 .. MaxLinkedCells + 1 |-> << >>],
             skin |-> 1, rebuilds |-> 0, returned |-> "none", deleted |-> {}]
    /\ IdleC08
    /\ IdleMPI
    /\ IdleDS
    /\ IdlePV
    /\ IdleLP
    /\ IdlePT
    /\ IdleCT
    /\ IdleTW
    /\ IdleRL
    /\ IdleSL
    /\ IdleOT
    /\ IdleVL
    /\ IdleIP
    /\ IdlePA
    /\ IdleGP
    /\ IdleN3
    /\ IdleVC
    /\ IdleDT

\* addParticleImpl and addHaloParticleImpl
RCAddParticle(ownership, cell) ==
    /\ Len(rc.particleList.particles) < MaxStored
    /\ LET pCopy == [id |-> Len(rc.particleList.particles) + 1, cell |-> cell,
                     ownership |-> ownership]
           pushed == [rc EXCEPT !.particleList = push_back(@, pCopy)]
       IN  rc' = [updateDirtyParticleReferences(pushed) EXCEPT !.rebuilds = 0,
                                                               !.returned = "none"]
    /\ UNCHANGED rcrest

\* A particle is moved through an iterator, into the same or another cell.
RCSetR(index, cell) ==
    /\ index \in 1 .. Len(rc.particleList.particles)
    /\ rc' = [rc EXCEPT !.particleList.particles[index].cell = cell,
                        !.rebuilds = 0, !.returned = "none"]
    /\ UNCHANGED rcrest

\* ReferenceLinkedCells::rebuildNeighborLists
RCRebuildNeighborLists ==
    /\ rc' = [updateDirtyParticleReferences(rc) EXCEPT
                 !.rebuilds = IF rc.rebuilds < 2 THEN rc.rebuilds + 1 ELSE 2,
                 !.returned = "none"]
    /\ UNCHANGED rcrest

\* CellBlock3D::getNearbyHaloCells: the halo cells that hold a point within
\* the skin of the position, in the order of the row.
getNearbyHaloCells(container, cell) ==
    LET last == Len(container.cells)
        near(c) == c - cell <= container.skin /\ cell - c <= container.skin
    IN  (IF near(1) THEN <<1>> ELSE << >>) \o (IF last > 1 /\ near(last) THEN <<last>> ELSE << >>)

\* The particle a reference of the current buffer points to.
RCParticleAt(container, address) == container.particleList.particles[address[2] + 1]

\* internal::checkParticleInCellAndUpdateByID: the first particle of the cell
\* with the id of the given one is overwritten with it.
checkParticleInCellAndUpdateByID(container, cell, particle) ==
    LET hits == { i \in 1 .. Len(container.cells[cell]) :
                    RCParticleAt(container, container.cells[cell][i]).id = particle.id }
    IN  IF hits = {} THEN [updated |-> FALSE, container |-> container]
        ELSE LET first == CHOOSE i \in hits : \A j \in hits : i <= j
                 index == container.cells[cell][first][2] + 1
             IN  [updated |-> TRUE,
                  container |-> [container EXCEPT !.particleList.particles[index] = particle]]

\* updateHaloParticle that gives up after the first nearby halo cell.
RECURSIVE updateInFirstCell(_, _, _)
updateInFirstCell(container, cells, pCopy) ==
    IF cells = << >> THEN [returned |-> FALSE, container |-> container]
    ELSE LET check == checkParticleInCellAndUpdateByID(container, Head(cells), pCopy)
         IN  [returned |-> check.updated, container |-> check.container]

\* The loop of ReferenceLinkedCells::updateHaloParticle over the nearby halo
\* cells: true at the first cell that was updated, false after the last.
RECURSIVE updateInCells(_, _, _)
updateInCells(container, cells, pCopy) ==
    IF cells = << >> THEN [returned |-> FALSE, container |-> container]
    ELSE LET check == checkParticleInCellAndUpdateByID(container, Head(cells), pCopy)
         IN  IF check.updated
               THEN [returned |-> TRUE, container |-> check.container]
               ELSE updateInCells(container, Tail(cells), pCopy)

\* ReferenceLinkedCells::updateHaloParticle
updateHaloParticle(container, haloParticle) ==
    LET pCopy == [haloParticle EXCEPT !.ownership = "halo"]
        cells == getNearbyHaloCells(container, pCopy.cell)
    IN  updateInCells(container, cells, pCopy)

\* One call of updateHaloParticle with a copy of a particle of another
\* process: its id and the cell of its position.
RCUpdateHaloParticle(id, cell) ==
    /\ LET result == updateHaloParticle(rc, [id |-> id, cell |-> cell, ownership |-> "owned"])
       IN  rc' = [result.container EXCEPT
                     !.rebuilds = 0,
                     !.returned = IF result.returned THEN "true" ELSE "false"]
    /\ UNCHANGED rcrest

\* The halo cells of the row.
HaloCells(container) == {1, Len(container.cells)}

\* The ids of the halo particles the halo cells refer to.
HaloParticlesIn(container) ==
    UNION { { RCParticleAt(container, container.cells[c][i]).id :
                i \in { j \in 1 .. Len(container.cells[c]) :
                           RCParticleAt(container, container.cells[c][j]).ownership = "halo" } } :
            c \in HaloCells(container) }

\* CellBlock3D::clearHaloCells: every halo cell is cleared.
clearHaloCells(container) ==
    [container EXCEPT !.cells = [c \in DOMAIN @ |->
                                    IF c \in HaloCells(container) THEN << >> ELSE @[c]]]

\* ReferenceLinkedCells::deleteHaloParticles
RCDeleteHaloParticles ==
    /\ rc' = [clearHaloCells(rc) EXCEPT
                 !.rebuilds = 0,
                 !.returned = "none",
                 !.deleted = @ \cup HaloParticlesIn(rc)]
    /\ UNCHANGED rcrest

NextRC ==
    \/ RCDeleteHaloParticles
    \/ \E ownership \in {"owned", "halo"}, cell \in 1 .. MaxLinkedCells + 1 :
          RCAddParticle(ownership, cell)
    \/ \E index \in 1 .. MaxStored, cell \in 1 .. MaxLinkedCells + 1 : RCSetR(index, cell)
    \/ RCRebuildNeighborLists
    \/ \E id \in 1 .. MaxStored + 1, cell \in 1 .. MaxLinkedCells + 1 :
          RCUpdateHaloParticle(id, cell)

SpecRC == InitRC /\ [][NextRC]_vars

\* A rebuild that follows a rebuild, with no particle added or moved in
\* between.
SecondRebuild == rc.rebuilds >= 1 /\ rc'.rebuilds = 2

\* C20: a rebuildNeighborLists that follows a rebuild, with no particle
\* added or moved in between, leaves the references of the cells and the
\* particles of the vector exactly as they were.
C20_RebuildIdempotent ==
    [][SecondRebuild =>
          /\ rc'.cells = rc.cells
          /\ rc'.particleList.particles = rc.particleList.particles]_vars

\* The state after a second rebuild of a container that holds particles in
\* two cells, after the vector has moved to a new buffer.
C20_Witness ==
    /\ rc # << >>
    /\ rc.rebuilds = 2
    /\ rc.particleList.buffer >= 2
    /\ \A c \in 1 .. 2 : rc.cells[c] # << >>

(***************************************************************************)
(* DirectSum: insertion outside the region the cell stands for.             *)
(***************************************************************************)

\* The position is in the half-open box [boxMin, boxMax).
InsideBox(r) == \A k \in 1 .. 3 : boxMin[k] <= r[k] /\ r[k] < boxMax[k]

\* A step of addParticle or addHaloParticle.
DSInsertion == ds'.added = ds.added + 1

\* C21: addParticle with a position outside [boxMin, boxMax) and
\* addHaloParticle with a position inside it raise an error and leave the
\* owned cell and the halo cell unchanged; addParticle inside appends the
\* particle to the owned cell only and addHaloParticle outside appends it to
\* the halo cell only.
C21_InsertionErrors ==
    [][DSInsertion =>
        LET p == [id |-> ds'.added, r |-> ds'.arg]
            wrong == IF ds'.call = "addParticle" THEN ~InsideBox(p.r) ELSE InsideBox(p.r)
        IN  /\ ds'.call \in {"addParticle", "addHaloParticle"}
            /\ ds'.exception = wrong
            /\ wrong => ds'.owned = ds.owned /\ ds'.halo = ds.halo
            /\ ~wrong /\ ds'.call = "addParticle" =>
                   ds'.owned = Append(ds.owned, p) /\ ds'.halo = ds.halo
            /\ ~wrong /\ ds'.call = "addHaloParticle" =>
                   ds'.halo = Append(ds.halo, p) /\ ds'.owned = ds.owned]_vars

\* A rejected insertion into a container whose two cells both hold a particle.
C21_Witness ==
    /\ ds # << >>
    /\ ds.call \in {"addParticle", "addHaloParticle"}
    /\ ds.exception
    /\ ds.owned # << >>
    /\ ds.halo # << >>

(***************************************************************************)
(* DirectSum: the schedule of one pairwise iteration.                       *)
(***************************************************************************)

\* The cell-functor calls of the last pairwise iteration, in order.
DSTasks == SelectSeq(ds.calls, LAMBDA c : c.op \in {"processCell", "processCellPair"})

\* Where in the calls of the last pairwise iteration an operation on the
\* cells is found.
DSCallIndex(op, cells) == { i \in 1 .. Len(ds.calls) : ds.calls[i].op = op /\ ds.calls[i].cells = cells }

\* C24: one pairwise iteration of DirectSum, AoS or SoA, with or without
\* Newton 3, processes exactly two tasks: first the owned cell with itself,
\* then the pair (owned cell, halo cell); the halo cell is never processed
\* with itself; in SoA mode both cells are loaded before the first task and
\* extracted after the last.
C24_Schedule ==
    (ds # << >> /\ ds.call \in {"iteratePairwiseAoS", "iteratePairwiseSoA"}) =>
        /\ Len(DSTasks) = 2
        /\ DSTasks[1].op = "processCell" /\ DSTasks[1].cells = <<"owned">>
        /\ DSTasks[2].op = "processCellPair" /\ DSTasks[2].cells = <<"owned", "halo">>
        /\ \A i \in 1 .. 2 : /\ DSTasks[i].useNewton3 = ds.arg
                             /\ DSTasks[i].useSoA = (ds.call = "iteratePairwiseSoA")
        /\ DSCallIndex("processCell", <<"halo">>) = {}
        /\ ds.call = "iteratePairwiseSoA" =>
               \A cell \in {"owned", "halo"} :
                   /\ Cardinality(DSCallIndex("SoALoader", <<cell>>)) = 1
                   /\ Cardinality(DSCallIndex("SoAExtractor", <<cell>>)) = 1
                   /\ \A l \in DSCallIndex("SoALoader", <<cell>>),
                         e \in DSCallIndex("SoAExtractor", <<cell>>),
                         t \in { i \in 1 .. Len(ds.calls) :
                                   ds.calls[i].op \in {"processCell", "processCellPair"} } :
                          l < t /\ t < e

\* A pairwise iteration in SoA mode without Newton 3 over two filled cells.
C24_Witness ==
    /\ ds # << >>
    /\ ds.call = "iteratePairwiseSoA"
    /\ ds.arg = FALSE
    /\ ds.owned # << >>
    /\ ds.halo # << >>
    /\ Len(ds.calls) = 6

(***************************************************************************)
(* ReferenceLinkedCells: updateHaloParticle.                                *)
(***************************************************************************)

\* The halo cells within the skin of a position.
NearHaloCells(cell) ==
    { c \in {1, Len(rc.cells)} : c - cell <= rc.skin /\ cell - c <= rc.skin }

\* The indices in the vector of the particles with the id that a halo cell
\* near the position refers to.
FoundNear(id, cell) ==
    { index \in 1 .. Len(rc.particleList.particles) :
        \E c \in NearHaloCells(cell) : \E i \in 1 .. Len(rc.cells[c]) :
            rc.cells[c][i][2] + 1 = index }
    \cap { index \in 1 .. Len(rc.particleList.particles) :
             rc.particleList.particles[index].id = id }

MaxPairwise == 4   \* calls of iteratePairwise

Containers == {"ReferenceLinkedCells", "VerletClusterLists"}

\* The traversals: whether the object is a LinkedCellTraversalInterface, a
\* CellPairTraversal of the container's cell type, a
\* VerletClustersTraversalInterface.
Traversals ==
    [linkedCell : BOOLEAN, cellPair : BOOLEAN, verletClusters : BOOLEAN]

\* The three calls every iteratePairwise ends with.
traverse == <<"initTraversal", "traverseParticlePairs", "endTraversal">>

\* ReferenceLinkedCells::iteratePairwise with an error handler that logs and
\* returns.
iteratePairwiseIgnoringErrors(traversal) ==
    (IF traversal.linkedCell /\ traversal.cellPair
       THEN <<"setCellsToTraverse">>
       ELSE <<"exception">>)
    \o traverse

\* ReferenceLinkedCells::iteratePairwise: the calls it makes, in order.
iteratePairwiseLinkedCells(traversal) ==
    IF traversal.linkedCell /\ traversal.cellPair
      THEN <<"setCellsToTraverse">> \o traverse
      ELSE <<"exception">>

\* VerletClusterLists::iteratePairwise: the calls it makes, in order.
iteratePairwiseClusterLists(traversal) ==
    IF traversal.verletClusters
      THEN <<"setClusterLists", "setTowers">> \o traverse
      ELSE <<"exception">>

\* No container has been asked to iterate.
InitIP ==
    /\ ip = [container |-> "none", traversal |-> << >>, calls |-> << >>,
             traversed |-> [c \in Containers |-> 0], iterations |-> 0]
    /\ IdleC08
    /\ IdleMPI
    /\ IdleDS
    /\ IdlePV
    /\ IdleLP
    /\ IdlePT
    /\ IdleCT
    /\ IdleTW
    /\ IdleRL
    /\ IdleSL
    /\ IdleOT
    /\ IdleVL
    /\ IdleRC
    /\ IdlePA
    /\ IdleGP
    /\ IdleN3
    /\ IdleVC
    /\ IdleDT

\* One call of iteratePairwise of a container with a traversal.
IPIteratePairwise(container, traversal) ==
    /\ ip.iterations < MaxPairwise
    /\ LET calls == IF container = "ReferenceLinkedCells"
                      THEN iteratePairwiseLinkedCells(traversal)
                      ELSE iteratePairwiseClusterLists(traversal)
           pairs == Cardinality({ i \in 1 .. Len(calls) : calls[i] = "traverseParticlePairs" })
       IN  ip' = [container |-> container, traversal |-> traversal, calls |-> calls,
                  traversed |-> [ip.traversed EXCEPT ![container] = @ + pairs],
                  iterations |-> ip.iterations + 1]
    /\ UNCHANGED iprest

NextIP == \E container \in Containers, traversal \in Traversals :
              IPIteratePairwise(container, traversal)

SpecIP == InitIP /\ [][NextIP]_vars

\* The traversal is of the type the container works with: a linked-cell
\* traversal over cell pairs, or a cluster traversal.
Compatible(container, traversal) ==
    IF container = "ReferenceLinkedCells"
      THEN traversal.linkedCell /\ traversal.cellPair
      ELSE traversal.verletClusters

\* The calls of the last iteratePairwise on the traversal itself.
IPTraversalCalls ==
    SelectSeq(ip.calls, LAMBDA c : c \in {"initTraversal", "traverseParticlePairs",
                                          "endTraversal"})

\* C23: iteratePairwise with a traversal of a type that does not fit the
\* container raises an error and executes none of initTraversal,
\* traverseParticlePairs, endTraversal; with a fitting traversal it executes
\* each of the three exactly once, in this order.
C23_WrongTraversal ==
    (ip # << >> /\ ip.container # "none") =>
        IF Compatible(ip.container, ip.traversal)
          THEN /\ IPTraversalCalls = <<"initTraversal", "traverseParticlePairs", "endTraversal">>
               /\ \A i \in 1 .. Len(ip.calls) : ip.calls[i] # "exception"
          ELSE /\ IPTraversalCalls = << >>
               /\ \E i \in 1 .. Len(ip.calls) : ip.calls[i] = "exception"

\* A cluster traversal was handed to ReferenceLinkedCells after each
\* container was traversed once.
C23_Witness ==
    /\ ip # << >>
    /\ ip.container = "ReferenceLinkedCells"
    /\ ip.traversal.verletClusters
    /\ ~ip.traversal.linkedCell
    /\ \A c \in Containers : ip.traversed[c] = 1
    /\ ip.calls = <<"exception">>

(***************************************************************************)
(* Concurrent addParticle on one ParticleView, or on the cell of one        *)
(* ClusterTower.  Every thread calls addParticle again and again; a         *)
(* particle is written as the number of the thread that adds it.  A step    *)
(* is one statement of addParticle.  AutoPasLock is a mutual exclusion      *)
(* lock; the cell of the tower appends under its own lock.                  *)
(***************************************************************************)
MaxViewAdds == 9      \* calls of addParticle on one store
initialCapacity == 8  \* ParticleView::_capacity

PAThreads == 1 .. MaxThreads

\* The slots of a Kokkos view resized to a capacity: the old slots keep
\* their content, new ones hold no particle (0).
resizeView(slots, capacity) ==
    [i \in 0 .. capacity - 1 |-> IF i \in DOMAIN slots THEN slots[i] ELSE 0]

\* The store after construction, with no thread in addParticle.
InitPA ==
    /\ \E kind \in {"ParticleView", "ClusterTower"} :
           pa = [kind |-> kind,
                 slots |-> IF kind = "ParticleView"
                             THEN [i \in 0 .. initialCapacity - 1 |-> 0]
                             ELSE << >>,
                 capacity |-> IF kind = "ParticleView" THEN initialCapacity ELSE 0,
                 size |-> 0,
                 locked |-> FALSE,
                 pc |-> [t \in PAThreads |-> "idle"],
                 calls |-> 0,
                 done |-> [t \in PAThreads |-> 0]]
    /\ IdleC08
    /\ IdleMPI
    /\ IdleDS
    /\ IdlePV
    /\ IdleLP
    /\ IdlePT
    /\ IdleCT
    /\ IdleTW
    /\ IdleRL
    /\ IdleSL
    /\ IdleOT
    /\ IdleVL
    /\ IdleRC
    /\ IdleIP
    /\ IdleGP
    /\ IdleN3
    /\ IdleVC
    /\ IdleDT

\* _particleViewLock.lock() that does not wait for the lock.
PALockWithoutWaiting(t) ==
    /\ pa.kind = "ParticleView"
    /\ pa.pc[t] = "idle"
    /\ pa.calls < MaxViewAdds
    /\ pa' = [pa EXCEPT !.locked = TRUE, !.pc[t] = "locked", !.calls = @ + 1]
    /\ UNCHANGED parest

\* ParticleView::addParticle: _particleViewLock.lock()
PALock(t) ==
    /\ pa.kind = "ParticleView"
    /\ pa.pc[t] = "idle"
    /\ pa.calls < MaxViewAdds
    /\ ~pa.locked
    /\ pa' = [pa EXCEPT !.locked = TRUE, !.pc[t] = "locked", !.calls = @ + 1]
    /\ UNCHANGED parest

\* if (_size == _capacity) { _capacity *= 2; Kokkos::resize(..) }
PAResize(t) ==
    /\ pa.kind = "ParticleView"
    /\ pa.pc[t] = "locked"
    /\ IF pa.size = pa.capacity
         THEN pa' = [pa EXCEPT !.capacity = 2 * @, !.slots = resizeView(@, 2 * pa.capacity),
                               !.pc[t] = "copy"]
         ELSE pa' = [pa EXCEPT !.pc[t] = "copy"]
    /\ UNCHANGED parest

\* deep_copy(subview(_particleViewImp, _size), p): a write past the end of
\* the view is not kept.
PADeepCopy(t) ==
    /\ pa.kind = "ParticleView"
    /\ pa.pc[t] = "copy"
    /\ pa' = [pa EXCEPT !.slots = IF pa.size \in DOMAIN @ THEN [@ EXCEPT ![pa.size] = t] ELSE @,
                        !.pc[t] = "increment"]
    /\ UNCHANGED parest

\* _size++
PAIncrement(t) ==
    /\ pa.kind = "ParticleView"
    /\ pa.pc[t] = "increment"
    /\ pa' = [pa EXCEPT !.size = @ + 1, !.pc[t] = "unlock"]
    /\ UNCHANGED parest

\* _particleViewLock.unlock(), and the return
PAUnlock(t) ==
    /\ pa.kind = "ParticleView"
    /\ pa.pc[t] = "unlock"
    /\ pa' = [pa EXCEPT !.locked = FALSE, !.pc[t] = "idle", !.done[t] = @ + 1]
    /\ UNCHANGED parest

\* ClusterTower::addParticle: the cell takes its lock.
PATowerLock(t) ==
    /\ pa.kind = "ClusterTower"
    /\ pa.pc[t] = "idle"
    /\ pa.calls < MaxViewAdds
    /\ ~pa.locked
    /\ pa' = [pa EXCEPT !.locked = TRUE, !.pc[t] = "locked", !.calls = @ + 1]
    /\ UNCHANGED parest

\* The cell appends the particle to its vector.
PATowerPushBack(t) ==
    /\ pa.kind = "ClusterTower"
    /\ pa.pc[t] = "locked"
    /\ pa' = [pa EXCEPT !.slots = Append(@, t), !.size = @ + 1, !.pc[t] = "unlock"]
    /\ UNCHANGED parest

\* The cell releases its lock, and addParticle returns.
PATowerUnlock(t) ==
    /\ pa.kind = "ClusterTower"
    /\ pa.pc[t] = "unlock"
    /\ pa' = [pa EXCEPT !.locked = FALSE, !.pc[t] = "idle", !.done[t] = @ + 1]
    /\ UNCHANGED parest

NextPA ==
    \/ \E t \in PAThreads : PALock(t)
    \/ \E t \in PAThreads : PAResize(t)
    \/ \E t \in PAThreads : PADeepCopy(t)
    \/ \E t \in PAThreads : PAIncrement(t)
    \/ \E t \in PAThreads : PAUnlock(t)
    \/ \E t \in PAThreads : PATowerLock(t)
    \/ \E t \in PAThreads : PATowerPushBack(t)
    \/ \E t \in PAThreads : PATowerUnlock(t)

SpecPA == InitPA /\ [][NextPA]_vars

\* The indices of the store that hold a particle of a thread.
PAStored(t) == { i \in DOMAIN pa.slots : pa.slots[i] = t }

\* The indices below the size of the store.
PAIndices == IF pa.kind = "ParticleView" THEN 0 .. pa.size - 1 ELSE 1 .. pa.size

RECURSIVE PASum(_, _)
PASum(f, S) == IF S = {} THEN 0 ELSE LET x == CHOOSE y \in S : TRUE IN f[x] + PASum(f, S \ {x})

\* No thread is inside addParticle.
PAQuiet == \A t \in PAThreads : pa.pc[t] = "idle"

\* What holds of the store in every state.
PASafe ==
    /\ pa.kind = "ParticleView" => pa.size <= pa.capacity
    /\ PAQuiet =>
          /\ pa.size = PASum(pa.done, PAThreads)
          /\ \A t \in PAThreads :
                 Cardinality(PAStored(t) \cap PAIndices) = pa.done[t]
          /\ \A i \in PAIndices : pa.slots[i] \in PAThreads

\* C25: after any interleaving of addParticle calls of several threads on a
\* ParticleView or on the cell of a ClusterTower, the size is the number of
\* the calls, every thread finds each of its particles at an index of its
\* own below the size, and for the view the size never exceeds the capacity
\* and the capacity changes only by doubling.
C25_ConcurrentAdd ==
    /\ [](pa # << >> => PASafe)
    /\ [][pa'.capacity # pa.capacity => pa'.capacity = 2 * pa.capacity]_vars

\* Both threads have added to a view that has grown to twice its capacity.
C25_Witness ==
    /\ pa # << >>
    /\ pa.kind = "ParticleView"
    /\ PAQuiet
    /\ pa.capacity = 2 * initialCapacity
    /\ pa.size = initialCapacity + 1
    /\ \A t \in PAThreads : pa.done[t] >= 1

(***************************************************************************)
(* GaussianProcess::sampleAquisitionMax and sampleAquisitionMin.  A sample  *)
(* is written as what the process predicts for it: the mean, and the        *)
(* square root of the variance.  Indices count from 0 as in the code; -1 is *)
(* the index before the first comparison.                                   *)
(***************************************************************************)
MaxSamples == 3   \* length of the sample list
MaxMean == 2      \* predicted means are 0 .. MaxMean
MaxDeviation == 1 \* square roots of predicted variances are 0 .. MaxDeviation
MaxN3Configs == 3  \* configurations in the search space that loses a Newton-3 option
MaxBuffered == 3   \* particles given to addParticle of VerletClusterLists

AcquisitionFunctions == {"ucb", "lcb", "mean"}

Predictions == [mean : 0 .. MaxMean, deviation : 0 .. MaxDeviation]

\* The sample lists of a length.
SampleLists(n) == [1 .. n -> Predictions]

\* GaussianProcess::calcAcquisition
calcAcquisition(af, feature) ==
    CASE af = "ucb" -> feature.mean + feature.deviation
      [] af = "lcb" -> feature.mean - feature.deviation
      [] af = "mean" -> feature.mean

\* The loop of sampleAquisitionMax with >= in place of >.
RECURSIVE maxLoopLast(_, _, _, _, _)
maxLoopLast(af, samples, i, maxIdx, maxVal) ==
    IF i >= Len(samples) THEN maxIdx
    ELSE LET val == calcAcquisition(af, samples[i + 1])
         IN  IF maxIdx = -1 \/ val >= maxVal
               THEN maxLoopLast(af, samples, i + 1, i, val)
               ELSE maxLoopLast(af, samples, i + 1, maxIdx, maxVal)

\* The loop of sampleAquisitionMax from index i on.
RECURSIVE maxLoop(_, _, _, _, _)
maxLoop(af, samples, i, maxIdx, maxVal) ==
    IF i >= Len(samples) THEN maxIdx
    ELSE LET val == calcAcquisition(af, samples[i + 1])
         IN  IF maxIdx = -1 \/ val > maxVal
               THEN maxLoop(af, samples, i + 1, i, val)
               ELSE maxLoop(af, samples, i + 1, maxIdx, maxVal)

\* The loop of sampleAquisitionMin from index i on.
RECURSIVE minLoop(_, _, _, _, _)
minLoop(af, samples, i, minIdx, minVal) ==
    IF i >= Len(samples) THEN minIdx
    ELSE LET val == calcAcquisition(af, samples[i + 1])
         IN  IF minIdx = -1 \/ val < minVal
               THEN minLoop(af, samples, i + 1, i, val)
               ELSE minLoop(af, samples, i + 1, minIdx, minVal)

\* A process after construction and some evidence, with the caller's
\* acquisition function and its list of samples, which is not empty;
\* nothing has been sampled yet.
InitGP ==
    /\ \E af \in AcquisitionFunctions, n \in 1 .. MaxSamples :
           \E samples \in SampleLists(n) :
               gp = [call |-> "construct", af |-> af, samples |-> samples, index |-> -1]
    /\ IdleC08
    /\ IdleMPI
    /\ IdleDS
    /\ IdlePV
    /\ IdleLP
    /\ IdlePT
    /\ IdleCT
    /\ IdleTW
    /\ IdleRL
    /\ IdleSL
    /\ IdleOT
    /\ IdleVL
    /\ IdleRC
    /\ IdleIP
    /\ IdlePA
    /\ IdleN3
    /\ IdleVC
    /\ IdleDT

\* sampleAquisitionMax(af, samples); index is the index of the sample
\* returned.
GPSampleAquisitionMax ==
    /\ gp' = [gp EXCEPT !.call = "sampleAquisitionMax",
                        !.index = maxLoop(gp.af, gp.samples, 0, -1, 0)]
    /\ UNCHANGED gprest

\* sampleAquisitionMin(af, samples)
GPSampleAquisitionMin ==
    /\ gp' = [gp EXCEPT !.call = "sampleAquisitionMin",
                        !.index = minLoop(gp.af, gp.samples, 0, -1, 0)]
    /\ UNCHANGED gprest

NextGP ==
    \/ GPSampleAquisitionMax
    \/ GPSampleAquisitionMin

SpecGP == InitGP /\ [][NextGP]_vars

\* The acquisition value of the sample at an index of the last call.
GPValue(i) == calcAcquisition(gp.af, gp.samples[i + 1])

\* C26: for a sample list that is not empty, sampleAquisitionMax returns a
\* sample whose acquisition value is at least that of every other sample,
\* sampleAquisitionMin one whose value is at most that of every other, and
\* of the samples with that value the one with the smallest index.
C26_Sampling ==
    (gp # << >> /\ gp.call # "construct") =>
        /\ gp.index \in 0 .. Len(gp.samples) - 1
        /\ \A j \in 0 .. Len(gp.samples) - 1 :
               IF gp.call = "sampleAquisitionMax"
                 THEN /\ GPValue(gp.index) >= GPValue(j)
                      /\ j < gp.index => GPValue(j) < GPValue(gp.index)
                 ELSE /\ GPValue(gp.index) <= GPValue(j)
                      /\ j < gp.index => GPValue(j) > GPValue(gp.index)

\* The largest upper confidence bound is found at two samples that differ
\* in mean and variance, neither of them the first; the earlier of the two
\* is returned.
C26_Witness ==
    /\ gp # << >>
    /\ gp.call = "sampleAquisitionMax"
    /\ gp.af = "ucb"
    /\ Len(gp.samples) = 3
    /\ gp.index = 1
    /\ gp.samples[2] # gp.samples[3]
    /\ GPValue(1) = GPValue(2)
    /\ GPValue(0) < GPValue(1)

(***************************************************************************)
(* PredictiveTuning with a caller that may ask for the next configuration  *)
(* without having measured the current one: tune() with its default        *)
(* argument, not preceded by addEvidence.                                   *)
(***************************************************************************)

\* tune(false) for a configuration that was not measured.
PTTuneWithoutEvidence ==
    /\ pt.pc = "tuning"
    /\ LET p == [pt EXCEPT !.iteration = @ + 1]
       IN  \E q \in tune(p, FALSE) :
               pt' = IF q.pc = "tuning"
                     THEN [q EXCEPT !.phase.current = @ \cup {q.currentConfig[2]}]
                     ELSE q
    /\ UNCHANGED ptrest

NextPTAnyCaller ==
    \/ NextPT
    \/ PTTuneWithoutEvidence

SpecPTAnyCaller == InitPT /\ [][NextPTAnyCaller]_vars

\* No configuration has received evidence in the phase the object is in.
PTNoEvidence == pt # << >> /\ pt.phase # << >> /\ pt.phase.measured = {}

\* C27: a strategy that is asked for the optimum of a phase in which no
\* configuration received evidence raises an error and commits no
\* configuration: such a phase does not end with tune returning false.
C27_NoEvidenceError ==
    PTNoEvidence => pt.pc # "done"

\* A phase with predictions and a single candidate has ended, and no
\* configuration was measured in it.
C27_Witness ==
    /\ PTNoEvidence
    /\ pt.pc = "done"
    /\ Cardinality(pt.optimalSearchSpace) = 1
    /\ pt.currentConfig[2] \in pt.optimalSearchSpace

(***************************************************************************)
(* PredictiveTuning: the history of measurements.                           *)
(***************************************************************************)

\* The step is a call of reset.
PTResetStep == pt.pc = "done" /\ pt'.pc # "done"

\* The step is a call of addEvidence.
PTAddEvidenceStep == pt.pc = "tuning" /\ pt'.pc = "sampled"

\* A vector is the beginning of another.
IsPrefix(v, w) == Len(v) <= Len(w) /\ \A i \in 1 .. Len(v) : v[i] = w[i]

\* C28: reset(iteration) leaves the stored (iteration, time) samples and the
\* last-tested phase of every configuration as they were; in every step the
\* samples a configuration had are still there, in place, and a sample is
\* added only by addEvidence, one, at the end, for the current configuration.
C28_History ==
    [][/\ PTResetStep =>
            /\ pt'.traversalTimesStorage = pt.traversalTimesStorage
            /\ pt'.lastTest = pt.lastTest
       /\ \A c \in PTSearchSpace :
            /\ IsPrefix(pt.traversalTimesStorage[c], pt'.traversalTimesStorage[c])
            /\ pt'.traversalTimesStorage[c] # pt.traversalTimesStorage[c] =>
                   /\ PTAddEvidenceStep
                   /\ c = pt.currentConfig[2]
                   /\ Len(pt'.traversalTimesStorage[c]) = Len(pt.traversalTimesStorage[c]) + 1]_vars

\* The fourth phase has begun with predictions, and every configuration
\* still has its three samples of the phases before.
C28_Witness ==
    /\ pt # << >>
    /\ pt.pc = "tuning"
    /\ pt.tuningIterationsCounter = 3
    /\ pt.phase # << >>
    /\ pt.phase.measured = {}
    /\ pt.phase.predicted
    /\ \A c \in PTSearchSpace : Len(pt.traversalTimesStorage[c]) = 3

(***************************************************************************)
(* Termination of a tuning phase of FullSearchMPI.  Every rank keeps       *)
(* running iterations, the collective calls return once every rank has     *)
(* made them, and a barrier every rank has entered is reported complete by *)
(* some later AutoPas_MPI_Test.  Whether the configuration of an iteration *)
(* is applicable is the caller's finding; nothing is assumed about it.     *)
(* The ranks start every phase together.                                   *)
(***************************************************************************)

\* One iteration of the caller on rank r: it measures, or it calls tune.
RankIterates(r) ==
    /\ r \in Ranks
    /\ \/ \E time \in Times : AddEvidence(r, time)
       \/ \E currentInvalid \in BOOLEAN : Tune(r, currentInvalid)

\* A call of tune in which AutoPas_MPI_Test reports the barrier complete.
TuneCompletes(r) ==
    /\ r \in Ranks
    /\ tuningRequest[r]
    /\ Tune(r, FALSE)
    /\ mpiPc'[r] # "tuning"

\* The rank's pending collective call returns.
CollectiveReturns(r) ==
    /\ r \in Ranks
    /\ (AllreduceReturn(r) \/ BcastReturn(r))

\* The caller on rank r starts the next tuning phase: the ranks start a
\* phase at the same iteration, so none stays behind in the phase before.
RankResets(r) ==
    /\ r \in Ranks
    /\ Reset(r)

SpecMPILive ==
    /\ InitMPI
    /\ [][NextMPI]_vars
    /\ \A r \in 0 .. (MaxRanks - 1) :
          /\ WF_vars(RankIterates(r))
          /\ SF_vars(TuneCompletes(r))
          /\ WF_vars(CollectiveReturns(r))
          /\ WF_vars(RankResets(r))

\* C29: every tuning phase eventually ends on all ranks: a rank that is
\* tuning eventually has tune return false, with the configuration committed,
\* also when configurations are reported invalid.
C29_Termination ==
    \A r \in 0 .. (MaxRanks - 1) :
        (r \in Ranks /\ mpiPc[r] = "tuning") ~> (r \in Ranks /\ mpiPc[r] = "done")

\* A rank has visited its whole search space with every configuration
\* reported invalid, so it has entered no barrier, while another rank has
\* entered the barrier and waits.
C29_Witness ==
    \E r, q \in Ranks :
        /\ mpiPc[r] = "tuning" /\ mpiPc[q] = "tuning"
        /\ tuningPhase[r] = tuningPhase[q]
        /\ allConfigsTested[r] /\ ~tuningRequest[r] /\ lastEvidence[r] = << >>
        /\ tuningRequest[q]

\* The caller on rank r measures a configuration.
RankMeasures(r) ==
    /\ r \in Ranks
    /\ \E time \in Times : AddEvidence(r, time)

\* The caller on rank r calls tune after a measurement.
RankTunesMeasured(r) ==
    /\ r \in Ranks
    /\ Tune(r, FALSE)

\* The ranks of SpecMPILive, each of which in addition keeps finding
\* configurations it can measure.
SpecMPIMeasuring ==
    /\ SpecMPILive
    /\ \A r \in 0 .. (MaxRanks - 1) :
          /\ WF_vars(RankMeasures(r))
          /\ WF_vars(RankTunesMeasured(r))

(***************************************************************************)
(* The readiness barrier of FullSearchMPI.                                 *)
(***************************************************************************)

\* The positions of the rank's search space.
RankPositions(r) == 1 .. Cardinality(searchSpace[r])

\* The rank has begun the global selection of its phase.
InSelection(r) == mpiPc[r] \in {"allreduce", "bcast", "done"}

\* The rank has visited its whole search space in this phase and has entered
\* the barrier.
Ready(q) ==
    /\ phaseLog[q].visited = RankPositions(q)
    /\ phaseLog[q].requests >= 1

\* No rank is in the selection before every rank of its phase is ready, the
\* ranks are all in that phase while a collective call is pending, and no
\* rank has called Ibarrier twice in a phase.
BarrierState ==
    \A r \in Ranks :
        /\ phaseLog[r].requests <= 1
        /\ InSelection(r)
             => \A q \in Ranks : tuningPhase[q] = tuningPhase[r] => Ready(q)
        /\ mpiPc[r] \in {"allreduce", "bcast"}
             => \A q \in Ranks : tuningPhase[q] = tuningPhase[r]

\* A rank that has entered the barrier stays in the tuning phase until every
\* rank has entered it; its calls of tune move its iterator round its search
\* space, and what it measures is recorded for the configuration it is at.
BarrierStep ==
    \A r \in Ranks :
        (mpiPc[r] = "tuning" /\ tuningRequest[r])
            => /\ mpiPc'[r] # "tuning" => InBarrier(r) = Ranks
               /\ InBarrier(r) # Ranks => tuningRequest'[r]
               /\ sampled[r] /\ ~sampled'[r]
                    => tuningConfig'[r] = (tuningConfig[r] % Cardinality(searchSpace[r])) + 1
               /\ ~sampled[r] /\ sampled'[r]
                    => /\ currentTuningConfig(r) \in DOMAIN traversalTimes'[r]
                       /\ traversalTimes'[r][currentTuningConfig(r)] \in Times

\* C30: no rank runs the global selection before every rank has visited all
\* configurations of its search space at least once in the current phase and
\* has entered the non-blocking barrier; a rank that finished early keeps
\* cycling through its search space and recording evidence until the barrier
\* completes; each rank issues at most one barrier request per phase.
C30_ReadinessBarrier ==
    /\ [](worldSize # 0 => BarrierState)
    /\ [][worldSize # 0 => BarrierStep]_vars

\* One rank has begun the selection while the other, which has entered the
\* barrier, has measured once more and has not yet tested its request again.
C30_Witness ==
    /\ worldSize = MaxRanks
    /\ \E r, q \in Ranks :
           /\ mpiPc[r] = "allreduce"
           /\ mpiPc[q] = "tuning"
           /\ phaseLog[q].requests = 1
           /\ sampled[q]
           /\ Cardinality(searchSpace[q]) > 1

(***************************************************************************)
(* Invalid samples are skipped.                                            *)
(***************************************************************************)

\* PredictiveTuning has ended a phase: tune returned false.
PTCommitted == pt # << >> /\ pt.phase # << >> /\ pt.pc = "done"

\* The configuration PredictiveTuning committed was measured in the phase.
PTCommittedMeasured == PTCommitted => pt.currentConfig[2] \in pt.phase.measured

\* The configuration the ranks of FullSearchMPI committed was measured in the
\* phase by a rank (a rank that has started the next phase has forgotten
\* what it measured).
MPICommittedMeasured ==
    \A r \in Ranks :
        Committed(r) =>
            \E w \in Ranks : \/ tuningPhase[w] # tuningPhase[r]
                             \/ optimalConfig[r] \in DOMAIN lastEvidence[w]

\* PredictiveTuning is inside selectOptimalConfiguration at the end of a phase
\* and reads back() of the empty vector of a configuration that was reported
\* invalid and never measured: what it commits is not defined.
PTSelectionUndefined ==
    /\ pt # << >> /\ pt.phase # << >>
    /\ pt.pc = "undefined"
    /\ pt.phase.measured # {}
    /\ \E c \in pt.phase.invalid : pt.traversalTimesStorage[c] = << >>

\* C31: a configuration that was reported invalid and received no evidence
\* in the current phase is never the configuration committed at the end of the
\* phase; the committed configuration always has evidence recorded in the
\* current phase, in PredictiveTuning and in FullSearchMPI.
C31_InvalidSkipped ==
    /\ pt # << >> => (PTCommittedMeasured /\ ~PTSelectionUndefined)
    /\ worldSize # 0 => MPICommittedMeasured

\* The selection at the end of the first phase, in which the first
\* configuration was reported invalid and the second was measured.
C31_Witness ==
    /\ PTSelectionUndefined
    /\ pt.tuningIterationsCounter = 0
    /\ pt.phase.invalid = {1}
    /\ pt.phase.measured = {2}

(***************************************************************************)
(* removeN3Option of PredictiveTuning and FullSearchMPI.  The search space *)
(* is a std::set of configurations; the configurations are numbered in the *)
(* order of the set and each has a Newton-3 option.  The strategy is       *)
(* tuning, so FullSearchMPI::getCurrentConfiguration returns *_tuningConfig *)
(* and PredictiveTuning::getCurrentConfiguration returns *_currentConfig.  *)
(***************************************************************************)

N3Configs == 1 .. MaxN3Configs

Newton3Options == {"disabled", "enabled"}

N3Strategies == {"PredictiveTuning", "FullSearchMPI"}

\* The iterator erase returns, followed to the element the loop leaves it at:
\* the next configuration that is not deleted, 0 for end().
nextNonDeleted(remaining, it) ==
    LET later == { c \in remaining : c > it }
    IN  IF later = {} THEN 0 ELSE CHOOSE c \in later : \A d \in later : c <= d

\* removeN3Option(badNewton3Option): the loop over the search space, and the
\* exception when nothing is left.
removeN3Option(p, badNewton3Option) ==
    LET remaining == { c \in p.searchSpace : p.newton3[c] # badNewton3Option }
    IN  [p EXCEPT !.searchSpace = remaining,
                  !.currentConfig = IF @ \in p.searchSpace /\ @ \notin remaining
                                    THEN nextNonDeleted(remaining, @) ELSE @,
                  !.pc = IF remaining = {} THEN "exception" ELSE "removed",
                  !.arg = badNewton3Option,
                  !.returned = 0]

\* The strategy after its constructor: the iterator is at begin().
InitN3 ==
    /\ \E strategy \in N3Strategies, newton3 \in [N3Configs -> Newton3Options] :
          n3 = [strategy |-> strategy,
                newton3 |-> newton3,
                searchSpace |-> N3Configs,
                currentConfig |-> 1,
                pc |-> "tuning",
                arg |-> "none",
                returned |-> 0]
    /\ IdleC08
    /\ IdleMPI
    /\ IdleDS
    /\ IdlePV
    /\ IdleLP
    /\ IdlePT
    /\ IdleCT
    /\ IdleTW
    /\ IdleRL
    /\ IdleSL
    /\ IdleOT
    /\ IdleVL
    /\ IdleRC
    /\ IdleIP
    /\ IdlePA
    /\ IdleGP
    /\ IdleVC
    /\ IdleDT

\* tune moved the iterator to the next configuration.
N3Tune ==
    /\ n3.pc = "tuning"
    /\ n3.currentConfig < MaxN3Configs
    /\ n3' = [n3 EXCEPT !.currentConfig = @ + 1]
    /\ UNCHANGED n3rest

\* The tuner calls removeN3Option.
N3RemoveN3Option(badNewton3Option) ==
    /\ n3.pc \in {"tuning", "removed", "returned"}
    /\ n3.currentConfig # 0
    /\ n3' = removeN3Option(n3, badNewton3Option)
    /\ UNCHANGED n3rest

\* The tuner asks for the current configuration: the iterator is dereferenced,
\* which is undefined at end().
N3GetCurrentConfiguration ==
    /\ n3.pc = "removed"
    /\ n3' = IF n3.currentConfig = 0
             THEN [n3 EXCEPT !.pc = "undefined"]
             ELSE [n3 EXCEPT !.pc = "returned", !.returned = n3.currentConfig]
    /\ UNCHANGED n3rest

NextN3 ==
    \/ N3Tune
    \/ \E badNewton3Option \in Newton3Options : N3RemoveN3Option(badNewton3Option)
    \/ N3GetCurrentConfiguration

SpecN3 == InitN3 /\ [][NextN3]_vars

\* After a call the current configuration can be returned and is in the
\* search space, and an error was raised exactly when the search space is
\* empty.
N3After ==
    /\ n3.pc # "undefined"
    /\ n3.pc = "exception" <=> n3.searchSpace = {}
    /\ n3.pc = "removed" => n3.currentConfig \in n3.searchSpace
    /\ n3.pc = "returned" => n3.returned \in n3.searchSpace

\* A call of removeN3Option takes exactly the configurations with the option
\* out of the search space, and moves the iterator only off a removed
\* configuration, to the next one that is left.
N3Call ==
    n3'.searchSpace # n3.searchSpace \/ n3'.arg # n3.arg \/ (n3.pc # "removed" /\ n3'.pc = "removed")
        => /\ n3'.searchSpace = { c \in n3.searchSpace : n3.newton3[c] # n3'.arg }
           /\ n3.currentConfig \in n3'.searchSpace => n3'.currentConfig = n3.currentConfig
           /\ (n3.currentConfig \notin n3'.searchSpace /\ n3'.currentConfig # 0)
                => /\ n3'.currentConfig \in n3'.searchSpace
                   /\ n3'.currentConfig > n3.currentConfig
                   /\ \A c \in n3'.searchSpace : c > n3.currentConfig => n3'.currentConfig <= c

\* C32: after removeN3Option(opt) the search space is exactly the previous
\* search space minus all configurations with newton3 = opt; if that leaves
\* it empty an error is raised; otherwise getCurrentConfiguration returns a
\* member of the remaining search space, the next configuration not deleted
\* if the current one was removed.
C32_RemoveN3Option ==
    /\ [](n3 # << >> => N3After)
    /\ [][n3 # << >> => N3Call]_vars

\* The current configuration was the last of the search space and was
\* removed while another stays: the iterator is at end().
C32_Witness ==
    /\ n3 # << >>
    /\ n3.pc = "removed"
    /\ n3.currentConfig = 0
    /\ n3.searchSpace # {}
    /\ n3.arg = "enabled"

(***************************************************************************)
(* The sample histories PredictiveTuning reads.                            *)
(***************************************************************************)

\* The samples of every configuration have increasing iterations.
PTDistinctIterations ==
    \A c \in pt.searchSpace :
        \A i \in 1 .. (Len(pt.traversalTimesStorage[c]) - 1) :
            pt.traversalTimesStorage[c][i][1] < pt.traversalTimesStorage[c][i + 1][1]

\* C33: whenever linePrediction or selectOptimalConfiguration reads the
\* sample history of a configuration the history is long enough: no read of
\* vector[size - 2] or back() is outside the vector, every configuration has
\* two samples with distinct iterations when predictions are made, also when
\* configurations were invalid in earlier phases.
C33_HistoryLongEnough ==
    pt # << >> =>
        /\ pt.pc # "undefined"
        /\ PTDistinctIterations
        /\ (pt.phase # << >> /\ pt.phase.predicted)
               => \A c \in pt.searchSpace : Len(pt.traversalTimesStorage[c]) >= 2

\* reset at the start of the third phase makes predictions while a
\* configuration that was invalid in the second phase has one sample.
C33_Witness ==
    /\ pt # << >> /\ pt.phase # << >>
    /\ pt.pc = "undefined"
    /\ pt.phase.current = {}
    /\ pt.tuningIterationsCounter = 2
    /\ \E c \in pt.searchSpace : Len(pt.traversalTimesStorage[c]) = 1
    /\ \A c \in pt.searchSpace : Len(pt.traversalTimesStorage[c]) >= 1

\* C34: for every distribution of neighbour counts over the clusters,
\* clusters without neighbours and no cluster pair at all included, the
\* thread index used to write _clusterThreadPartition stays below numThreads
\* during the whole of fillClusterRanges: no write is outside the vector.
C34_ThreadIndexInBounds == ct # << >> => ct.pc # "undefined"

\* fillClusterRanges has written outside the vector for towers in which no
\* cluster has a neighbour.
C34_Witness ==
    /\ ct # << >>
    /\ ct.pc = "undefined"
    /\ LET clusters == ClusterSequence(ct.towers, 1)
       IN  /\ Len(clusters) >= 2
           /\ \A k \in 1 .. Len(clusters) : clusters[k][3] = 0

\* The ids of the particles the cells refer to: the particles an iterator
\* over the container visits.
RCReferenced ==
    UNION { { RCParticleAt(rc, rc.cells[c][i]).id : i \in 1 .. Len(rc.cells[c]) } :
            c \in DOMAIN rc.cells }

\* C35: after deleteHaloParticles no halo particle added before that call is
\* referenced by any cell or visited by any iterator, in every later state
\* reached by addParticle, addHaloParticle and rebuildNeighborLists, also
\* when the central vector becomes dirty and all references are rebuilt.
C35_HaloDeletionPermanent == rc # << >> => rc.deleted \cap RCReferenced = {}

\* A deleted halo particle is referenced again by a halo cell after the
\* vector was moved to a new buffer.
C35_Witness ==
    /\ rc # << >>
    /\ rc.particleList.buffer >= 2
    /\ \E c \in HaloCells(rc) : \E i \in 1 .. Len(rc.cells[c]) :
          /\ RCParticleAt(rc, rc.cells[c][i]).id \in rc.deleted
          /\ RCParticleAt(rc, rc.cells[c][i]).ownership = "halo"
          /\ rc.cells[c][i][1] = rc.particleList.buffer

(***************************************************************************)
(* VerletClusterLists: addParticle only buffers.  A particle is            *)
(* [id, inBox, owned]: its id, whether its position is in the box, and its *)
(* ownership.  The towers are taken as the sequence of the particles they  *)
(* hold, in the order of the iterator.  The builder                        *)
(* (VerletClusterListsRebuilder), the particle iterator and                *)
(* internal::deleteParticle are not part of the sources: the builder sorts *)
(* the particles of the towers and of _particlesToAdd into the towers and  *)
(* empties _particlesToAdd, the iterator walks the towers, and             *)
(* deleteParticle removes the particle from its tower.                     *)
(***************************************************************************)

VCIds == 1 .. MaxBuffered

\* An addParticle that sorts the particle in at once.
addParticleIntoTower(container, p) ==
    [container EXCEPT !.towers = Append(@, p)]

\* VerletClusterLists::addParticleImpl
addParticleImpl(container, p) ==
    [container EXCEPT !.particlesToAdd = Append(@, p)]

\* The iterator from begin(): the particles of the towers.
VCBeginIterator(container) == container.towers

\* VerletClusterLists::deleteHaloParticles
VCdeleteHaloParticles(container) ==
    [container EXCEPT !.towers = SelectSeq(VCBeginIterator(container), LAMBDA q : q.owned)]

\* VerletClusterLists::updateContainer: the container it leaves and the
\* particles it returns.
VCupdateContainer(container) ==
    LET c1 == VCdeleteHaloParticles(container)
    IN  [container |-> [c1 EXCEPT !.towers = SelectSeq(VCBeginIterator(c1), LAMBDA q : q.inBox)],
         invalidParticles |-> SelectSeq(VCBeginIterator(c1), LAMBDA q : ~q.inBox)]

\* VerletClusterLists::getNumParticles: the sum over the towers.
VCgetNumParticles(container) == Len(container.towers)

\* VerletClusterListsRebuilder::rebuild
rebuild(container) ==
    [container EXCEPT !.towers = @ \o container.particlesToAdd, !.particlesToAdd = << >>]

\* The container after construction; call and result keep the last call and
\* what it returned.
InitVC ==
    /\ vc = [towers |-> << >>, particlesToAdd |-> << >>, added |-> 0,
             call |-> "construct", result |-> << >>]
    /\ IdleC08
    /\ IdleMPI
    /\ IdleDS
    /\ IdlePV
    /\ IdleLP
    /\ IdlePT
    /\ IdleCT
    /\ IdleTW
    /\ IdleRL
    /\ IdleSL
    /\ IdleOT
    /\ IdleVL
    /\ IdleRC
    /\ IdleIP
    /\ IdlePA
    /\ IdleGP
    /\ IdleN3
    /\ IdleDT

\* addParticle(p) with a new particle.
VCAddParticle(inside) ==
    /\ vc.added < MaxBuffered
    /\ vc' = [addParticleImpl(vc, [id |-> vc.added + 1, inBox |-> inside, owned |-> TRUE])
                 EXCEPT !.added = @ + 1, !.call = "addParticle", !.result = << >>]
    /\ UNCHANGED vcrest

\* A particle of a tower is changed through an iterator: it leaves the box
\* or becomes a halo particle.
VCChange(i, inside, own) ==
    /\ i \in 1 .. Len(vc.towers)
    /\ vc' = [vc EXCEPT !.towers[i].inBox = inside, !.towers[i].owned = own,
                        !.call = "change", !.result = << >>]
    /\ UNCHANGED vcrest

VCDeleteHaloParticles ==
    /\ vc' = [VCdeleteHaloParticles(vc) EXCEPT !.call = "deleteHaloParticles", !.result = << >>]
    /\ UNCHANGED vcrest

VCUpdateContainer ==
    /\ LET u == VCupdateContainer(vc)
       IN  vc' = [u.container EXCEPT !.call = "updateContainer", !.result = u.invalidParticles]
    /\ UNCHANGED vcrest

VCGetNumParticles ==
    /\ vc' = [vc EXCEPT !.call = "getNumParticles", !.result = VCgetNumParticles(vc)]
    /\ UNCHANGED vcrest

\* A loop with the iterator from begin() to the end: the particles visited.
VCIterate ==
    /\ vc' = [vc EXCEPT !.call = "begin", !.result = VCBeginIterator(vc)]
    /\ UNCHANGED vcrest

VCRebuildNeighborLists ==
    /\ vc' = [rebuild(vc) EXCEPT !.call = "rebuildNeighborLists", !.result = << >>]
    /\ UNCHANGED vcrest

NextVC ==
    \/ \E inside \in BOOLEAN : VCAddParticle(inside)
    \/ \E i \in VCIds, inside, own \in BOOLEAN : VCChange(i, inside, own)
    \/ VCDeleteHaloParticles
    \/ VCUpdateContainer
    \/ VCGetNumParticles
    \/ VCIterate
    \/ VCRebuildNeighborLists

SpecVC == InitVC /\ [][NextVC]_vars

\* The ids of the particles of a sequence.
VCIdsOf(particles) == { particles[i].id : i \in 1 .. Len(particles) }

\* The ids of the particles that wait in _particlesToAdd.
VCBuffered == VCIdsOf(vc.particlesToAdd)

\* What the last call returned holds no buffered particle: they are not
\* counted, not visited and not returned.
VCResultWithoutBuffered ==
    /\ vc.call = "getNumParticles" =>
          /\ vc.result = Cardinality(VCIdsOf(vc.towers))
          /\ vc.result + Len(vc.particlesToAdd) <= vc.added
    /\ vc.call \in {"begin", "updateContainer"} => VCIdsOf(vc.result) \cap VCBuffered = {}

\* Between rebuilds the buffer only grows, and addParticle leaves the towers
\* as they are.
VCStep ==
    /\ vc'.call # "rebuildNeighborLists" => IsPrefix(vc.particlesToAdd, vc'.particlesToAdd)
    /\ vc'.added # vc.added =>
          /\ vc'.towers = vc.towers
          /\ vc'.particlesToAdd = Append(vc.particlesToAdd, Last(vc'.particlesToAdd))
          /\ Last(vc'.particlesToAdd).id = vc'.added
    /\ vc'.call = "rebuildNeighborLists" =>
          /\ vc'.particlesToAdd = << >>
          /\ VCIdsOf(vc'.towers) = VCIdsOf(vc.towers) \cup VCBuffered

\* C36: a particle passed to addParticle is only buffered; until the next
\* rebuildNeighborLists it is not counted by getNumParticles, not visited by
\* iterators and not returned by updateContainer, and the towers are
\* unchanged; no buffered particle is dropped by any sequence of addParticle,
\* updateContainer and deleteHaloParticles before that rebuild.
C36_DeferredInsertion ==
    /\ [](vc # << >> => VCResultWithoutBuffered)
    /\ [][vc # << >> => VCStep]_vars

\* updateContainer has returned a particle that left the box while two
\* particles wait in the buffer, one of them outside the box.
C36_Witness ==
    /\ vc # << >>
    /\ vc.call = "updateContainer"
    /\ Len(vc.result) = 1
    /\ Len(vc.particlesToAdd) = 2
    /\ \E i \in 1 .. 2 : ~vc.particlesToAdd[i].inBox

(***************************************************************************)
(* DomainTools::generateDecomposition of md-flexible, one step per round   *)
(* of its loops.  The version for std::array and the one for std::vector   *)
(* with dimensionCount = 3 run the same statements.                        *)
(***************************************************************************)
MaxSubdomainCount == 36

\* The longest list of prime factors the model follows; every
\* subdomainCount in 1 .. MaxSubdomainCount has fewer factors.  Of the
\* factors pushed to a list of that length only their number modulo 2 is
\* kept, in the field more.
MaxFactors == 8

dimensionCount == 3

RECURSIVE Product(_)
Product(s) == IF s = << >> THEN 1 ELSE Head(s) * Product(Tail(s))

\* std::list::sort on a list of int.
RECURSIVE listSort(_)
listSort(s) ==
    IF s = << >> THEN << >>
    ELSE LET k == CHOOSE k \in 1 .. Len(s) : \A j \in 1 .. Len(s) : s[k] <= s[j]
         IN  <<s[k]>> \o listSort([j \in 1 .. Len(s) - 1 |-> IF j < k THEN s[j] ELSE s[j + 1]])

\* One round of the loop that reduces the factors to dimensionCount: sort,
\* pop the smallest and multiply the new front by it.
reduceStep(primeFactors) ==
    LET sorted == listSort(primeFactors)
        firstElement == Head(sorted)
        popped == Tail(sorted)
    IN  [popped EXCEPT ![1] = @ * firstElement]

\* The loop that fills the decomposition from the front of the list.
fillDecomposition(primeFactors) ==
    [k \in 1 .. dimensionCount |->
        IF k <= Len(primeFactors) THEN primeFactors[k] ELSE 1]

\* primeFactors.push_back(factor)
pushFactor(call, factor) ==
    IF Len(call.primeFactors) < MaxFactors
    THEN [call EXCEPT !.primeFactors = Append(@, factor)]
    ELSE [call EXCEPT !.more = (@ + 1) % 2]

InitGD ==
    /\ \E subdomainCount \in 0 .. MaxSubdomainCount :
          dt = [input |-> subdomainCount, subdomainCount |-> subdomainCount,
                primeFactors |-> << >>, more |-> 0, i |-> 0,
                decomposition |-> << >>, pc |-> "twos"]
    /\ IdleC08
    /\ IdleMPI
    /\ IdleDS
    /\ IdlePV
    /\ IdleLP
    /\ IdlePT
    /\ IdleCT
    /\ IdleTW
    /\ IdleRL
    /\ IdleSL
    /\ IdleOT
    /\ IdleVL
    /\ IdleRC
    /\ IdleIP
    /\ IdlePA
    /\ IdleGP
    /\ IdleN3
    /\ IdleVC

\* while (subdomainCount % 2 == 0)
GDTwos ==
    /\ dt.pc = "twos"
    /\ IF dt.subdomainCount % 2 = 0
       THEN dt' = [pushFactor(dt, 2) EXCEPT !.subdomainCount = @ \div 2]
       ELSE dt' = [dt EXCEPT !.pc = "odds", !.i = 3]
    /\ UNCHANGED dtrest

\* for (i = 3; i <= subdomainCount; i = i + 2) while (subdomainCount % i == 0)
GDOdds ==
    /\ dt.pc = "odds"
    /\ IF dt.i <= dt.subdomainCount
       THEN IF dt.subdomainCount % dt.i = 0
            THEN dt' = [pushFactor(dt, dt.i) EXCEPT !.subdomainCount = @ \div dt.i]
            ELSE dt' = [dt EXCEPT !.i = @ + 2]
       ELSE dt' = [dt EXCEPT !.pc = "reduce"]
    /\ UNCHANGED dtrest

\* while (primeFactors.size() > 3)
GDReduce ==
    /\ dt.pc = "reduce"
    /\ IF Len(dt.primeFactors) > dimensionCount
       THEN dt' = [dt EXCEPT !.primeFactors = reduceStep(@)]
       ELSE dt' = [dt EXCEPT !.pc = "fill"]
    /\ UNCHANGED dtrest

GDFill ==
    /\ dt.pc = "fill"
    /\ dt' = [dt EXCEPT !.decomposition = fillDecomposition(dt.primeFactors),
                        !.pc = "done"]
    /\ UNCHANGED dtrest

NextGD ==
    \/ GDTwos
    \/ GDOdds
    \/ GDReduce
    \/ GDFill

SpecGD == InitGD /\ [][NextGD]_vars

\* The call goes on as long as it has a next statement.
SpecGDLive == SpecGD /\ WF_vars(NextGD)

GDDone == dt # << >> /\ dt.pc = "done"

\* The result for a positive subdomainCount: dimensionCount entries, each
\* at least 1, with the product subdomainCount.
GDResult ==
    (GDDone /\ dt.input >= 1) =>
        /\ dt.more = 0
        /\ Len(dt.decomposition) = dimensionCount
        /\ \A k \in 1 .. dimensionCount : dt.decomposition[k] >= 1
        /\ Product(dt.decomposition) = dt.input

GDTerminatesIfPositive == (dt # << >> /\ dt.input >= 1) ~> GDDone

\* C39: generateDecomposition terminates for every subdomainCount >= 0, and
\* for every subdomainCount >= 1 it yields three entries, each at least 1,
\* whose product is subdomainCount.
C39_Decomposition == <>GDDone /\ []GDResult

\* The call with subdomainCount = 0 in its first loop, the list of factors
\* grown beyond the length the model follows.
C39_Witness ==
    /\ dt # << >>
    /\ dt.input = 0
    /\ dt.pc = "twos"
    /\ dt.subdomainCount = 0
    /\ Len(dt.primeFactors) = MaxFactors
    /\ dt.more = 1

(***************************************************************************)
(* The index of a subdomain and its id, the position of the subdomain in   *)
(* each dimension of the decomposition.  Arrays are functions on 0 .. 2.   *)
(***************************************************************************)
MaxDecomposition == 3

Dimensions == 0 .. 2

\* An accumulated tail that starts at the dimension itself.
getAccumulatedTailInclusive(index, decomposition) ==
    IF index = 0 THEN decomposition[0] * decomposition[1] * decomposition[2]
    ELSE IF index = 1 THEN decomposition[1] * decomposition[2]
    ELSE decomposition[2]

\* std::accumulate with std::multiplies over the entries behind index.
getAccumulatedTail(index, decomposition) ==
    IF index = 0 THEN 1 * decomposition[1] * decomposition[2]
    ELSE IF index = 1 THEN 1 * decomposition[2]
    ELSE 1

convertIdToIndex(domainId, decomposition) ==
    getAccumulatedTail(0, decomposition) * domainId[0]
    + getAccumulatedTail(1, decomposition) * domainId[1]
    + getAccumulatedTail(2, decomposition) * domainId[2]

\* The loop takes the quotient by the accumulated tail of each dimension
\* and goes on with what is left of the index.
convertIndexToId(domainIndex, decomposition) ==
    LET id0 == domainIndex \div getAccumulatedTail(0, decomposition)
        domainIndex1 == domainIndex - getAccumulatedTail(0, decomposition) * id0
        id1 == domainIndex1 \div getAccumulatedTail(1, decomposition)
        domainIndex2 == domainIndex1 - getAccumulatedTail(1, decomposition) * id1
        id2 == domainIndex2 \div getAccumulatedTail(2, decomposition)
    IN  [i \in Dimensions |-> IF i = 0 THEN id0 ELSE IF i = 1 THEN id1 ELSE id2]

getExtentOfSubdomain(subdomainIndex, decomposition) ==
    LET subdomainId == convertIndexToId(subdomainIndex, decomposition)
    IN  [j \in 0 .. 5 |-> IF j % 2 = 0 THEN subdomainId[j \div 2]
                                       ELSE subdomainId[j \div 2] + 1]

\* A decomposition with positive entries, no call made yet.
InitDI ==
    /\ \E decomposition \in [Dimensions -> 1 .. MaxDecomposition] :
          dt = [decomposition |-> decomposition, call |-> "none",
                domainIndex |-> 0, domainId |-> [i \in Dimensions |-> 0],
                back |-> 0, extent |-> [j \in 0 .. 5 |-> 0]]
    /\ IdleC08
    /\ IdleMPI
    /\ IdleDS
    /\ IdlePV
    /\ IdleLP
    /\ IdlePT
    /\ IdleCT
    /\ IdleTW
    /\ IdleRL
    /\ IdleSL
    /\ IdleOT
    /\ IdleVL
    /\ IdleRC
    /\ IdleIP
    /\ IdlePA
    /\ IdleGP
    /\ IdleN3
    /\ IdleVC

numSubdomains(decomposition) == decomposition[0] * decomposition[1] * decomposition[2]

\* The id of an index, the index of that id, and the extent of the index.
DIFromIndex(domainIndex) ==
    /\ domainIndex < numSubdomains(dt.decomposition)
    /\ LET id == convertIndexToId(domainIndex, dt.decomposition)
       IN  dt' = [dt EXCEPT !.call = "fromIndex",
                            !.domainIndex = domainIndex,
                            !.domainId = id,
                            !.back = convertIdToIndex(id, dt.decomposition),
                            !.extent = getExtentOfSubdomain(domainIndex, dt.decomposition)]
    /\ UNCHANGED dtrest

\* The index of an id, and the id of that index.
DIFromId(domainId) ==
    /\ \A i \in Dimensions : domainId[i] < dt.decomposition[i]
    /\ LET index == convertIdToIndex(domainId, dt.decomposition)
       IN  dt' = [dt EXCEPT !.call = "fromId",
                            !.domainId = domainId,
                            !.domainIndex = index,
                            !.back = convertIndexToId(index, dt.decomposition),
                            !.extent = [j \in 0 .. 5 |-> 0]]
    /\ UNCHANGED dtrest

NextDI ==
    \/ \E domainIndex \in 0 .. (MaxDecomposition * MaxDecomposition * MaxDecomposition - 1) :
          DIFromIndex(domainIndex)
    \/ \E domainId \in [Dimensions -> 0 .. (MaxDecomposition - 1)] : DIFromId(domainId)

SpecDI == InitDI /\ [][NextDI]_vars

\* C40: the index of the id of an index is that index, the id of the index
\* of an id is that id, and the extent of a subdomain is [id[k], id[k] + 1]
\* in every dimension k, for every decomposition with positive entries.
C40_IndexRoundTrip ==
    /\ (dt # << >> /\ dt.call = "fromIndex") =>
           /\ dt.back = dt.domainIndex
           /\ \A k \in Dimensions :
                  /\ dt.domainId[k] \in 0 .. (dt.decomposition[k] - 1)
                  /\ dt.extent[2 * k] = dt.domainId[k]
                  /\ dt.extent[2 * k + 1] = dt.domainId[k] + 1
    /\ (dt # << >> /\ dt.call = "fromId") =>
           /\ dt.back = dt.domainId
           /\ dt.domainIndex \in 0 .. (numSubdomains(dt.decomposition) - 1)

\* The last subdomain of a decomposition into 2 x 3 x 2 subdomains.
C40_Witness ==
    /\ dt # << >>
    /\ dt.call = "fromIndex"
    /\ dt.decomposition = [i \in Dimensions |-> IF i = 1 THEN 3 ELSE 2]
    /\ dt.domainIndex = 11
    /\ dt.domainId = [i \in Dimensions |-> IF i = 1 THEN 2 ELSE 1]
    /\ dt.back = 11

====
